---- MODULE Spec2Model ----
(***************************************************************************)
(* Memory-context engine of the multi-persona assistant                    *)
(* (backend/services/supermemory_client.py, memory_orchestrator.py,        *)
(* backend/app.py).                                                        *)
(*                                                                         *)
(* The external memory store is a sequence of documents; the program's     *)
(* operations are the store client (search / recent / create), the context *)
(* orchestrator, the re-ranker, the duplicate check and the write-back.    *)
(* Every operation leaves a record of its inputs and its outcome in        *)
(* `call`, which is what the properties talk about.                        *)
(***************************************************************************)
EXTENDS Integers, Sequences, FiniteSets, TLC

VARIABLES
    store,   \* the external store: sequence of documents, oldest first
    modes,   \* the user_modes table: set of custom mode rows
    now,     \* the clock (datetime.now(timezone.utc)), in days
    call     \* the last completed operation: its inputs and its outcome

vars == <<store, modes, now, call>>

(***************************************************************************)
(* Bounds of the model.                                                    *)
(***************************************************************************)
MaxStore == 2
MaxTime == 2

\* Default limits of the read functions.
DefaultSearchLimit == 10
DefaultRecentLimit == 5

(***************************************************************************)
(* Python values.                                                          *)
(***************************************************************************)
\* Python's None where a string is expected.
None == "<None>"

\* bool(s) of an Optional[str]: None and '' are falsy.
Truthy(s) == s # None /\ s # ""

\* d.get(k, default) of a dict modelled as a function.
Get(d, k, default) == IF k \in DOMAIN d THEN d[k] ELSE default

Min(a, b) == IF a <= b THEN a ELSE b

\* s[:n]
Take(s, n) == SubSeq(s, 1, Min(n, Len(s)))

Range(s) == {s[i] : i \in DOMAIN s}

(***************************************************************************)
(* Strings.  A text or a chat message is a sequence of characters, so that *)
(* lower(), split(), slicing and `in` do what Python's do.                 *)
(***************************************************************************)
UpperChars == <<"A", "B", "C", "D", "E", "F", "G", "H", "I", "J", "K", "L", "M",
                "N", "O", "P", "Q", "R", "S", "T", "U", "V", "W", "X", "Y", "Z">>
LowerChars == <<"a", "b", "c", "d", "e", "f", "g", "h", "i", "j", "k", "l", "m",
                "n", "o", "p", "q", "r", "s", "t", "u", "v", "w", "x", "y", "z">>

LowerChar(c) ==
    IF \E i \in DOMAIN UpperChars : UpperChars[i] = c
    THEN LowerChars[CHOOSE i \in DOMAIN UpperChars : UpperChars[i] = c]
    ELSE c

\* s.lower()
Lower(s) == [i \in DOMAIN s |-> LowerChar(s[i])]

IsSpace(c) == c \in {" ", "\t", "\n"}

\* s.split(): the maximal runs of non-whitespace characters, in order.
Split(s) ==
    LET TokenEnd(i) ==
            CHOOSE j \in i..Len(s) :
                /\ \A k \in i..j : ~IsSpace(s[k])
                /\ (j = Len(s) \/ IsSpace(s[j + 1]))
        TokenStarts ==
            {i \in DOMAIN s : ~IsSpace(s[i]) /\ (i = 1 \/ IsSpace(s[i - 1]))}
        starts == TokenStarts
        nth(n) == CHOOSE i \in starts : Cardinality({j \in starts : j < i}) = n - 1
    IN  [n \in 1..Cardinality(starts) |-> SubSeq(s, nth(n), TokenEnd(nth(n)))]

\* sub in s
Contains(sub, s) ==
    \E i \in 0..(Len(s) - Len(sub)) : SubSeq(s, i + 1, i + Len(sub)) = sub

\* s.strip()
RECURSIVE LStrip(_)
LStrip(s) == IF s # <<>> /\ IsSpace(Head(s)) THEN LStrip(Tail(s)) ELSE s

RECURSIVE RStrip(_)
RStrip(s) ==
    IF s # <<>> /\ IsSpace(s[Len(s)]) THEN RStrip(SubSeq(s, 1, Len(s) - 1)) ELSE s

Strip(s) == RStrip(LStrip(s))

\* s.find(sub) + 1: the position of the first occurrence, 0 when there is none.
IndexOf(sub, s) ==
    IF Contains(sub, s)
    THEN 1 + CHOOSE i \in 0..(Len(s) - Len(sub)) :
                 /\ SubSeq(s, i + 1, i + Len(sub)) = sub
                 /\ \A j \in 0..(i - 1) : SubSeq(s, j + 1, j + Len(sub)) # sub
    ELSE 0

\* s.split(sep)[0]
SplitFirst(s, sep) ==
    IF Contains(sep, s) THEN SubSeq(s, 1, IndexOf(sep, s) - 1) ELSE s

\* s.split(sep)[1], for s that contains sep
SplitSecond(s, sep) ==
    SplitFirst(SubSeq(s, IndexOf(sep, s) + Len(sep), Len(s)), sep)

(***************************************************************************)
(* ISO timestamps.  A metadata timestamp is a string in the program; here  *)
(* it is a record telling what datetime.fromisoformat makes of it:         *)
(*   kind "none"    the value None or '' (falsy, never parsed)             *)
(*   kind "aware"   an instant with a UTC offset ('...+00:00' or '...Z')   *)
(*   kind "naive"   a date or datetime without offset ('2025-01-31')       *)
(*   kind "garbage" anything fromisoformat rejects                         *)
(* t is the instant denoted (UTC), in days.                                *)
(***************************************************************************)
IsoNone == [kind |-> "none", t |-> 0]
Aware(t) == [kind |-> "aware", t |-> t]
Naive(t) == [kind |-> "naive", t |-> t]

\* datetime.fromisoformat(v.replace('Z', '+00:00')) returns a value.
IsoParses(v) == v.kind \in {"aware", "naive"}

(***************************************************************************)
(* Documents.  A document is a dict with the keys id, metadata, tags and   *)
(* text or content (the key of the payload that created it).               *)
(***************************************************************************)
\* container_tags of the three client calls; a tag is <<user_id>> or
\* <<user_id, role>> (the string f"{user_id}-{role}").
ContainerTags(user_id, role) ==
    (IF user_id # "default" THEN <<<<user_id>>>> ELSE <<>>)
        \o (IF Truthy(role) THEN <<<<user_id, role>>>> ELSE <<>>)

\* The documents the store answers a request with: those carrying one of the
\* requested tags (scope "any") or all of them (scope "all"), newest first
\* when sorted by createdAt desc, and at most `limit` when the store honours it.
RECURSIVE Reverse(_)
Reverse(s) == IF s = <<>> THEN <<>> ELSE Reverse(Tail(s)) \o <<Head(s)>>

StoreAnswer(docs, tags, scope, newestFirst, limit, honoured) ==
    LET TagMatch(doc) ==
            IF scope = "any"
            THEN \E i \in DOMAIN tags : tags[i] \in doc.tags
            ELSE \A i \in DOMAIN tags : tags[i] \in doc.tags
        match(d) == TagMatch(d)
        found == SelectSeq(docs, match)
        ordered == IF newestFirst THEN Reverse(found) ELSE found
    IN  IF honoured THEN Take(ordered, limit) ELSE ordered

(***************************************************************************)
(* Store client: the read filter.                                          *)
(***************************************************************************)
\* The filter with a naive expiry read as UTC instead of failing the
\* comparison.
SkipExpired_NaiveAsUtc(metadata, at) ==
    LET expires_at == Get(metadata, "expires_at", IsoNone)
    IN  /\ expires_at.kind # "none"
        /\ IsoParses(expires_at)
        /\ expires_at.t < at

\* The `continue` on an expired memory: expires_at is truthy, parses, compares
\* and lies before the call time.  A parse or comparison error is swallowed
\* by the bare `except: pass` and the memory is kept.
SkipExpired(metadata, at) ==
    LET \* `expiry < now` with now timezone-aware: comparing a naive datetime with an
        \* aware one raises TypeError.
        IsoComparable(v) == v.kind = "aware"
        expires_at == Get(metadata, "expires_at", IsoNone)
    IN  /\ expires_at.kind # "none"
        /\ IsoParses(expires_at)
        /\ IsoComparable(expires_at)
        /\ expires_at.t < at

\* The `continue` of the strict mode separation.
SkipMode_Off(metadata, role) == FALSE

SkipMode(metadata, role) ==
    Truthy(role) /\ Get(metadata, "mode", None) # role

\* get_recent_memories normalises 'content' to 'text' on the returned copy.
NormalizeText(mem) ==
    IF "content" \in DOMAIN mem /\ "text" \notin DOMAIN mem
    THEN [k \in DOMAIN mem \cup {"text"} |->
            IF k = "text" THEN mem["content"] ELSE mem[k]]
    ELSE mem

FilterMemories(memories, role, at) ==
    LET \* One turn of the filter loop: TRUE when the memory is appended.
        KeepMemory(mem) ==
            /\ ~SkipMode(mem.metadata, role)
            /\ ~SkipExpired(mem.metadata, at)
        keep(m) == KeepMemory(m) IN SelectSeq(memories, keep)

(***************************************************************************)
(* Outcome of one HTTP request to the store.                               *)
(*   "ok"         2xx with a well-formed JSON body                         *)
(*   "h400"       status 400 (raise_for_status raises HTTPError)           *)
(*   "h500"       any other non-2xx status (HTTPError)                     *)
(*   "net"        network error (requests.ConnectionError, a timeout)      *)
(*   "malformed"  2xx, but the body is no JSON or has no usable shape      *)
(***************************************************************************)
IsHTTPError(o) == o \in {"h400", "h500"}

(***************************************************************************)
(* search_memories                                                         *)
(***************************************************************************)
\* The body of the try block: one request, then the filter.
SearchTry(answer, outcome, role, at) ==
    IF outcome = "ok"
    THEN [exc |-> FALSE, value |-> FilterMemories(answer, role, at),
          requests |-> <<"/search/search">>]
    ELSE [exc |-> TRUE, value |-> <<>>, requests |-> <<"/search/search">>]

\* Variant in which the outer handler is missing.
search_memories_NoCatch(answer, outcome, role, at) ==
    LET r == SearchTry(answer, outcome, role, at)
    IN  [raised |-> r.exc, value |-> r.value, requests |-> r.requests]

\* try: ... except Exception: return []
search_memories(answer, outcome, role, at) ==
    LET r == SearchTry(answer, outcome, role, at)
    IN  [raised |-> FALSE,
         value |-> IF r.exc THEN <<>> ELSE r.value,
         requests |-> r.requests]

(***************************************************************************)
(* get_recent_memories                                                     *)
(***************************************************************************)
\* The filter without the final slice.
RecentFiltered_NoTrim(answer, role, limit, at) ==
    LET kept == FilterMemories(answer, role, at)
    IN  [i \in DOMAIN kept |-> NormalizeText(kept[i])]

\* The filter loop, the normalisation and filtered[:limit].
RecentFiltered(answer, role, limit, at) ==
    LET kept == FilterMemories(answer, role, at)
    IN  Take([i \in DOMAIN kept |-> NormalizeText(kept[i])], limit)

\* The inner try with its `except HTTPError` fallback to /memories; any other
\* exception of the primary leaves the inner try without a fallback, and a
\* failed fallback re-raises the primary's error.
RecentTry(answer1, o1, answer2, o2, role, limit, at) ==
    IF o1 = "ok"
    THEN [exc |-> FALSE, value |-> RecentFiltered(answer1, role, limit, at),
          requests |-> <<"/documents/documents">>]
    ELSE IF IsHTTPError(o1)
    THEN IF o2 = "ok"
         THEN [exc |-> FALSE, value |-> RecentFiltered(answer2, role, limit, at),
               requests |-> <<"/documents/documents", "/memories">>]
         ELSE [exc |-> TRUE, value |-> <<>>,
               requests |-> <<"/documents/documents", "/memories">>]
    ELSE [exc |-> TRUE, value |-> <<>>, requests |-> <<"/documents/documents">>]

\* Variant in which the outer handler is missing.
get_recent_memories_NoCatch(answer1, o1, answer2, o2, role, limit, at) ==
    LET r == RecentTry(answer1, o1, answer2, o2, role, limit, at)
    IN  [raised |-> r.exc, value |-> r.value, requests |-> r.requests]

\* try: ... except Exception: return []
get_recent_memories(answer1, o1, answer2, o2, role, limit, at) ==
    LET r == RecentTry(answer1, o1, answer2, o2, role, limit, at)
    IN  [raised |-> FALSE,
         value |-> IF r.exc THEN <<>> ELSE r.value,
         requests |-> r.requests]

(***************************************************************************)
(* create_memory                                                           *)
(***************************************************************************)
\* The inner try: POST /documents with 'content'; on HTTPError 400 a second
\* POST /documents with 'text'; on any HTTPError left, POST /memories, whose
\* HTTPError is re-raised (raise e3).  Any other failure propagates at once.
CreateTry(o1, o2, o3) ==
    LET \* A 2xx answer means the store kept the document, whatever the body says.
        Stored(o) == o \in {"ok", "malformed"}
        \* One POST: what becomes of the try block when it is the last request sent.
        LastPost(sent, outcomes, field) ==
            LET o == outcomes[Len(outcomes)]
            IN  [exc |-> o # "ok", ok |-> o = "ok",
                 field |-> IF Stored(o) THEN field ELSE None,
                 requests |-> sent, outcomes |-> outcomes]
    IN  IF ~IsHTTPError(o1)
        THEN LastPost(<<"/documents">>, <<o1>>, "content")
        ELSE IF o1 = "h400"
        THEN IF ~IsHTTPError(o2)
             THEN LastPost(<<"/documents", "/documents">>, <<o1, o2>>, "text")
             ELSE LastPost(<<"/documents", "/documents", "/memories">>, <<o1, o2, o3>>, "text")
        ELSE LastPost(<<"/documents", "/memories">>, <<o1, o3>>, "text")

\* The document the store keeps for a payload.
NewDocument(id, field, text, metadata, tags) ==
    IF field = "content"
    THEN [id |-> id, content |-> text, metadata |-> metadata, tags |-> tags]
    ELSE [id |-> id, text |-> text, metadata |-> metadata, tags |-> tags]

\* The result of the call and the store afterwards, for the try block's end r.
CreateOutcome(r, raised, docs, user_id, text, metadata, role) ==
    LET tags == Range(ContainerTags(user_id, role))
        doc == NewDocument(Len(docs) + 1, r.field, text, metadata, tags)
    IN  [raised |-> raised,
         value |-> IF r.ok THEN <<doc>> ELSE <<>>,
         requests |-> r.requests, outcomes |-> r.outcomes,
         docs |-> IF r.field # None THEN Append(docs, doc) ELSE docs]

\* The outer handler missing: the failure reaches the caller.
create_memory_NoCatch(docs, user_id, text, metadata, role, o1, o2, o3) ==
    LET r == CreateTry(o1, o2, o3)
    IN  CreateOutcome(r, r.exc, docs, user_id, text, metadata, role)

\* try: ... except Exception: return None.  value is <<doc>> for a returned
\* document and <<>> for None; docs is the store afterwards.
create_memory(docs, user_id, text, metadata, role, o1, o2, o3) ==
    LET r == CreateTry(o1, o2, o3)
    IN  CreateOutcome(r, FALSE, docs, user_id, text, metadata, role)

(***************************************************************************)
(* rerank_and_trim                                                         *)
(***************************************************************************)
\* `days_old < 7`
RecentDays == 7

\* score of one memory: the keywords of the message found in mem.get('text',
\* '').lower(), plus the boost.
Score(mem, user_message, at) ==
    LET \* The boost of a recent memory: createdAt is truthy, parses, and lies less
        \* than seven days before the call (created.replace(tzinfo=utc) makes a naive
        \* value comparable); a parse error is swallowed.
        RecentBoost(metadata) ==
            LET created_at == Get(metadata, "createdAt", IsoNone)
            IN  IF /\ created_at.kind # "none"
                   /\ IsoParses(created_at)
                   /\ at - created_at.t < RecentDays
                THEN 1 ELSE 0
        user_keywords == Range(Split(Lower(user_message)))
        text == Lower(Get(mem, "text", <<>>))
    IN  Cardinality({keyword \in user_keywords : Contains(keyword, text)})
            + RecentBoost(mem.metadata)

\* list.sort(key=score, reverse=True) is stable: an item goes behind every
\* item of greater or equal score that precedes it.
InsertByScore_TiesFirst(scored, item) ==
    LET ahead(x) == x[1] > item[1]
        behind(x) == ~(x[1] > item[1])
    IN  SelectSeq(scored, ahead) \o <<item>> \o SelectSeq(scored, behind)

InsertByScore(scored, item) ==
    LET ahead(x) == x[1] >= item[1]
        behind(x) == ~(x[1] >= item[1])
    IN  SelectSeq(scored, ahead) \o <<item>> \o SelectSeq(scored, behind)

RECURSIVE SortByScore(_)
SortByScore(scored) ==
    IF scored = <<>> THEN <<>>
    ELSE InsertByScore(SortByScore(SubSeq(scored, 1, Len(scored) - 1)),
                       scored[Len(scored)])

rerank_and_trim(search_results, user_message, max_items, at) ==
    IF search_results = <<>> THEN <<>>
    ELSE LET scored == [i \in DOMAIN search_results |->
                           <<Score(search_results[i], user_message, at),
                             search_results[i]>>]
             top == Take(SortByScore(scored), max_items)
         IN  [i \in DOMAIN top |-> top[i][2]]

(***************************************************************************)
(* Modes: the templates, the user_modes table, resolve_mode, create_mode.  *)
(***************************************************************************)
\* The templates student, job and fitness (parent repeats job's shape and
\* fashion repeats fitness's).
MODE_TEMPLATES ==
    << [key |-> "student", name |-> "Student Assistant", baseRole |-> "student",
        defaultTags |-> <<"student">>, crossModeSources |-> <<"job">>],
       [key |-> "job", name |-> "Job-Hunt Assistant", baseRole |-> "job",
        defaultTags |-> <<"job">>, crossModeSources |-> <<"student">>],
       [key |-> "fitness", name |-> "Fitness / Health", baseRole |-> "fitness",
        defaultTags |-> <<"fitness", "health">>, crossModeSources |-> <<>>] >>

TemplateKeys == {MODE_TEMPLATES[i].key : i \in DOMAIN MODE_TEMPLATES}

\* k.strip() of a key: a blank key becomes '', surrounding blanks go.
StripKey(k) ==
    CASE k = " " -> ""
      [] k = " work " -> "work"
      [] OTHER -> k

\* slugify_mode_key(name): lower-case, runs of other characters turned into
\* '-', dashes trimmed, 'mode' when nothing is left.
slugify_mode_key(name) ==
    CASE name = "Work" -> "work"
      [] name = "My Work!" -> "my-work"
      [] OTHER -> "mode"

\* list(a_set): the elements in an order of the implementation's choosing.
Orders(S) ==
    {o \in [1..Cardinality(S) -> S] : \A i, j \in DOMAIN o : i # j => o[i] # o[j]}

\* The keys of all other modes with the rows of every user.
OtherKeys_AllUsers(rows, user_id, key) ==
    {k \in TemplateKeys : k # key} \cup {um.key : um \in {r \in rows : r.key # key}}

\* The keys of all other modes, templates and the user's rows.
OtherKeys(rows, user_id, key) ==
    {k \in TemplateKeys : k # key}
        \cup {um.key : um \in {r \in rows : r.user_id = user_id /\ r.key # key}}

\* The row of a user for a key (UniqueConstraint(user_id, key)), as a set.
RowsFor(rows, user_id, key) == {r \in rows : r.user_id = user_id /\ r.key = key}

\* resolve_mode: a template key resolves to the template, a custom key to the
\* user's row, anything else to the fallback.  `order` is the order list(set)
\* produces when the row stores no cross sources.
resolve_mode(rows, user_id, mode_key, order) ==
    LET mk == StripKey(IF Truthy(mode_key) THEN mode_key ELSE "student")
        found == RowsFor(rows, user_id, mk)
    IN  IF mk \in TemplateKeys
        THEN LET m == CHOOSE t \in Range(MODE_TEMPLATES) : t.key = mk
             IN  [modeKey |-> mk, baseRole |-> m.baseRole, label |-> m.name,
                  defaultTags |-> m.defaultTags,
                  crossModeSources |-> m.crossModeSources, isCustom |-> FALSE]
        ELSE IF found # {}
        THEN LET custom == CHOOSE r \in found : TRUE
             IN  [modeKey |-> mk,
                  baseRole |-> IF Truthy(custom.base_role) THEN custom.base_role ELSE mk,
                  label |-> custom.name,
                  defaultTags |-> custom.default_tags,
                  crossModeSources |->
                      IF custom.cross_mode_sources # <<>>
                      THEN custom.cross_mode_sources ELSE order,
                  isCustom |-> TRUE]
        ELSE [modeKey |-> mk, baseRole |-> "student", label |-> mk,
              defaultTags |-> <<>>,
              crossModeSources |-> <<>>, isCustom |-> TRUE]

\* create_mode: the table after POST /api/modes.  The key is the given one (any
\* truthy string) or the slug of the name, stripped; an existing key changes
\* nothing; a new row borrows from every other mode, in list(set) order.
create_mode(rows, user_id, name, key_given, base_given, tags_given, order) ==
    LET key == StripKey(IF Truthy(key_given) THEN key_given ELSE slugify_mode_key(name))
        base_role == StripKey(IF Truthy(base_given) THEN base_given ELSE key)
    IN  IF ~Truthy(StripKey(name)) THEN [status |-> 400, key |-> None, rows |-> rows]
        ELSE IF RowsFor(rows, user_id, key) # {}
        THEN [status |-> 200, key |-> key, rows |-> rows]
        ELSE [status |-> 201, key |-> key,
              rows |-> rows \cup {[user_id |-> user_id, key |-> key,
                                   name |-> StripKey(name),
                                   base_role |-> base_role,
                                   default_tags |-> tags_given,
                                   cross_mode_sources |-> order]}]

(***************************************************************************)
(* The profile and its slices.                                             *)
(***************************************************************************)
EmptyDict == <<>>

\* What the store holds as the user's profile memory:
\*   "absent"  no profile memory           "badjson"  text that is no JSON
\*   "badshape" JSON that UserProfile.from_dict rejects     "good"  a profile
\* get_profile_memory: None (<<>>) on any failure, on no result and on text
\* that json.loads rejects; else the parsed JSON, <<kind>>.
get_profile_memory(stored, outcome) ==
    IF outcome = "ok" /\ stored \in {"badshape", "good"} THEN <<stored>> ELSE <<>>

\* UserProfile.from_dict inside try/except: None (<<>>) when it raises.
ParseProfile(profile_data) ==
    LET ProfileData ==
            [name |-> "Ada", city |-> "Pune",
             parent |-> [kids |-> "kids", schools |-> "schools",
                         recurring_events |-> "recurring_events"],
             student |-> [degree |-> "degree", year |-> "year", courses |-> "courses",
                          upcoming_exams |-> "upcoming_exams"],
             job |-> [target_roles |-> "target_roles", target_locations |-> "target_locations",
                      salary_band |-> "salary_band",
                      companies_of_interest |-> "companies_of_interest"]]
    IN  IF profile_data = <<"good">> THEN <<ProfileData>> ELSE <<>>

build_static_slice(profile, role) ==
    LET base == [name |-> profile.name, city |-> profile.city]
    IN  CASE role = "parent" ->
               [name |-> base.name, city |-> base.city, kids |-> profile.parent.kids,
                schools |-> profile.parent.schools,
                recurring_events |-> profile.parent.recurring_events]
          [] role = "student" ->
               [name |-> base.name, city |-> base.city,
                degree |-> profile.student.degree, year |-> profile.student.year,
                courses |-> profile.student.courses,
                upcoming_exams |-> profile.student.upcoming_exams]
          [] role = "job" ->
               [name |-> base.name, city |-> base.city,
                target_roles |-> profile.job.target_roles,
                target_locations |-> profile.job.target_locations,
                salary_band |-> profile.job.salary_band,
                companies_of_interest |-> profile.job.companies_of_interest]
          [] OTHER -> base

build_cross_role_static(profile, role) ==
    CASE role = "job" ->
           [education |-> [degree |-> profile.student.degree,
                           year |-> profile.student.year,
                           courses |-> profile.student.courses]]
      [] role = "student" ->
           [career_goals |-> [target_roles |-> profile.job.target_roles,
                              companies_of_interest |-> profile.job.companies_of_interest]]
      [] role = "parent" ->
           [school_schedule |-> [upcoming_exams |-> profile.student.upcoming_exams,
                                 courses |-> profile.student.courses]]
      [] OTHER -> EmptyDict

(***************************************************************************)
(* build_context_for_turn                                                  *)
(***************************************************************************)
\* The three budgets and the two request limits of the orchestrator.
RecentBudget == 5
SearchRequestLimit == 10
LongTermBudget == 5
CrossRequestLimit == 6
CrossBudget == 3

\* search_memories against the store.
SearchStore(docs, user_id, role, limit, outcome, honoured, at) ==
    LET answer == IF outcome = "ok"
                  THEN StoreAnswer(docs, ContainerTags(user_id, role), "any",
                                   FALSE, limit, honoured)
                  ELSE <<>>
    IN  search_memories(answer, outcome, role, at)

\* get_recent_memories against the store.
RecentStore(docs, user_id, role, limit, o1, o2, honoured, at) ==
    LET answer == StoreAnswer(docs, ContainerTags(user_id, role), "any",
                              TRUE, limit, honoured)
        a1 == IF o1 = "ok" THEN answer ELSE <<>>
        a2 == IF IsHTTPError(o1) /\ o2 = "ok" THEN answer ELSE <<>>
    IN  get_recent_memories(a1, o1, a2, o2, role, limit, at)

\* The loop over the cross sources: a search that raises is passed over.
RECURSIVE MergeCross(_, _, _, _, _, _, _)
MergeCross(docs, user_id, cross_sources, i, env, user_message, at) ==
    IF i > Len(cross_sources) THEN <<>>
    ELSE LET r == SearchStore(docs, user_id, cross_sources[i], CrossRequestLimit,
                              env.cross[i], env.honoured, at)
         IN  (IF r.raised THEN <<>> ELSE r.value)
                 \o MergeCross(docs, user_id, cross_sources, i + 1, env, user_message, at)

build_context_for_turn(docs, user_id, mode_config, user_message, env, at) ==
    LET mk == Get(mode_config, "modeKey", None)
        k == Get(mode_config, "key", None)
        mode_key == IF Truthy(mk) THEN mk ELSE IF Truthy(k) THEN k ELSE "student"
        br == Get(mode_config, "baseRole", None)
        base_role == IF Truthy(br) THEN br ELSE mode_key
        profile == ParseProfile(get_profile_memory(env.profile_stored, env.profile))
        recent == RecentStore(docs, user_id, mode_key, RecentBudget,
                              env.recent[1], env.recent[2], env.honoured, at)
        search_results == SearchStore(docs, user_id, mode_key, SearchRequestLimit,
                                      env.search, env.honoured, at)
        cross_sources == Get(mode_config, "crossModeSources", <<>>)
        merged == MergeCross(docs, user_id, cross_sources, 1, env, user_message, at)
    IN  [raised |-> recent.raised \/ search_results.raised,
         value |->
           [active_mode |-> mode_key,
            base_role |-> base_role,
            mode_config |-> mode_config,
            static_profile |->
                IF profile # <<>> THEN build_static_slice(profile[1], base_role)
                ELSE EmptyDict,
            cross_role_static |->
                IF profile # <<>> THEN build_cross_role_static(profile[1], base_role)
                ELSE EmptyDict,
            recent_memories |-> recent.value,
            long_term_memories |->
                rerank_and_trim(search_results.value, user_message, LongTermBudget, at),
            cross_role_memories |->
                IF cross_sources # <<>>
                THEN rerank_and_trim(merged, user_message, CrossBudget, at)
                ELSE <<>>]]

(***************************************************************************)
(* check_duplicate_memory                                                  *)
(***************************************************************************)
\* 'user asked:'
UserAskedMark ==
    <<"u", "s", "e", "r", " ", "a", "s", "k", "e", "d", ":">>

\* [:150] of the stored message, limit of the duplicate search
StoredPrefix == 150
DuplicateSearchLimit == 5

\* (mem.get('text') or mem.get('content') or '').lower()
MemText(mem) ==
    LET text == Get(mem, "text", <<>>)
    IN  Lower(IF text # <<>> THEN text ELSE Get(mem, "content", <<>>))

\* parts[1].split('.')[0].strip()[:150].lower()
StoredMessage(mem_text) ==
    Lower(Take(Strip(SplitFirst(SplitSecond(mem_text, UserAskedMark), <<".">>)),
               StoredPrefix))

\* The test on one memory without the substring rule.
IsDuplicateOf_WordsOnly(mem, user_message) ==
    LET user_msg_lower == Strip(Lower(user_message))
        user_msg_words == Range(Split(user_msg_lower))
        mem_text == MemText(mem)
        stored_msg == StoredMessage(mem_text)
        stored_words == Range(Split(stored_msg))
    IN  /\ Contains(UserAskedMark, mem_text)
        /\ Cardinality(user_msg_words) > 0
        /\ 10 * Cardinality(user_msg_words \cap stored_words)
              > 7 * Cardinality(user_msg_words)

\* The test on one memory: `similarity > 0.7 or stored_msg in user_msg_lower
\* or user_msg_lower in stored_msg`, under the guards of the loop.
IsDuplicateOf(mem, user_message) ==
    LET user_msg_lower == Strip(Lower(user_message))
        user_msg_words == Range(Split(user_msg_lower))
        mem_text == MemText(mem)
        stored_msg == StoredMessage(mem_text)
        stored_words == Range(Split(stored_msg))
    IN  /\ Contains(UserAskedMark, mem_text)
        /\ Cardinality(user_msg_words) > 0
        /\ \/ 10 * Cardinality(user_msg_words \cap stored_words)
                 > 7 * Cardinality(user_msg_words)
           \/ Contains(stored_msg, user_msg_lower)
           \/ Contains(user_msg_lower, stored_msg)

\* check_duplicate_memory against the store: the search scoped to the role,
\* then the loop.  `searched` is what search_memories returned.
check_duplicate_memory(docs, user_id, role, user_message, outcome, at) ==
    LET \* The loop: the first memory that passes the test, <<mem>>, or None, <<>>.
        FirstDuplicate(existing_memories) ==
            LET dup(mem) == IsDuplicateOf(mem, user_message)
                found == SelectSeq(existing_memories, dup)
            IN  IF found = <<>> THEN <<>> ELSE <<found[1]>>
        existing == SearchStore(docs, user_id, role, DuplicateSearchLimit,
                                outcome, TRUE, at)
    IN  [searched |-> existing.value,
         value |-> FirstDuplicate(existing.value)]

(***************************************************************************)
(* classify_memory                                                         *)
(***************************************************************************)
\* any(keyword in content_lower for keyword in keywords)
AnyIn(keywords, content_lower) == \E k \in keywords : Contains(k, content_lower)

EventKeywords ==
    { <<"e", "x", "a", "m">>, <<"m", "i", "d", "t", "e", "r", "m">>,
      <<"f", "i", "n", "a", "l">>, <<"t", "e", "s", "t">>,
      <<"i", "n", "t", "e", "r", "v", "i", "e", "w">>,
      <<"m", "e", "e", "t", "i", "n", "g">>,
      <<"a", "p", "p", "o", "i", "n", "t", "m", "e", "n", "t">>,
      <<"d", "e", "a", "d", "l", "i", "n", "e">>, <<"c", "a", "l", "l">>,
      <<"s", "e", "s", "s", "i", "o", "n">>,
      <<"b", "i", "r", "t", "h", "d", "a", "y">>,
      <<"p", "a", "r", "t", "y">>,
      <<"c", "e", "l", "e", "b", "r", "a", "t", "i", "o", "n">>,
      <<"w", "e", "d", "d", "i", "n", "g">>,
      <<"a", "n", "n", "i", "v", "e", "r", "s", "a", "r", "y">>,
      <<"e", "v", "e", "n", "t">>, <<"p", "l", "a", "y">>,
      <<"s", "h", "o", "w">>, <<"c", "o", "n", "c", "e", "r", "t">>,
      <<"t", "r", "i", "p">> }

ParentEphemeralKeywords ==
    { <<"f", "r", "i", "d", "g", "e">>,
      <<"g", "r", "o", "c", "e", "r", "y">>,
      <<"s", "h", "o", "p", "p", "i", "n", "g", " ", "l", "i", "s", "t">>,
      <<"b", "u", "y">> }

StudentExamKeywords ==
    { <<"e", "x", "a", "m">>, <<"m", "i", "d", "t", "e", "r", "m">>,
      <<"f", "i", "n", "a", "l">>, <<"t", "e", "s", "t">> }

StudentEphemeralKeywords ==
    { <<"h", "o", "m", "e", "w", "o", "r", "k">>,
      <<"a", "s", "s", "i", "g", "n", "m", "e", "n", "t">>,
      <<"d", "u", "e">> }

JobLongKeywords ==
    { <<"a", "p", "p", "l", "i", "e", "d", " ", "t", "o">>,
      <<"a", "p", "p", "l", "i", "c", "a", "t", "i", "o", "n">>,
      <<"i", "n", "t", "e", "r", "v", "i", "e", "w">>,
      <<"r", "e", "j", "e", "c", "t", "e", "d">>,
      <<"o", "f", "f", "e", "r">> }

JobMediumKeywords ==
    { <<"n", "e", "t", "w", "o", "r", "k", "i", "n", "g">>,
      <<"c", "o", "f", "f", "e", "e", " ", "c", "h", "a", "t">>,
      <<"m", "e", "e", "t", "i", "n", "g">> }

\* Days added to now by the rules.
ParentEventGrace == 1
ParentEphemeralDays == 7
StudentExamDays == 30
ExamHintDays == 7
StudentEphemeralDays == 14
JobMediumDays == 60
DefaultDays == 90
TomorrowDays == 1
NextWeekDays == 7

\* MONTHS.get(name): the number of the month, 0 for None.
MonthOf(name) ==
    LET MONTHS ==
           {<<<<"j", "a", "n">>, 1>>,
            <<<<"j", "a", "n", "u", "a", "r", "y">>, 1>>,
            <<<<"f", "e", "b">>, 2>>,
            <<<<"f", "e", "b", "r", "u", "a", "r", "y">>, 2>>,
            <<<<"m", "a", "r">>, 3>>,
            <<<<"m", "a", "r", "c", "h">>, 3>>,
            <<<<"a", "p", "r">>, 4>>,
            <<<<"a", "p", "r", "i", "l">>, 4>>,
            <<<<"m", "a", "y">>, 5>>,
            <<<<"j", "u", "n">>, 6>>,
            <<<<"j", "u", "n", "e">>, 6>>,
            <<<<"j", "u", "l">>, 7>>,
            <<<<"j", "u", "l", "y">>, 7>>,
            <<<<"a", "u", "g">>, 8>>,
            <<<<"a", "u", "g", "u", "s", "t">>, 8>>,
            <<<<"s", "e", "p">>, 9>>,
            <<<<"s", "e", "p", "t", "e", "m", "b", "e", "r">>, 9>>,
            <<<<"o", "c", "t">>, 10>>,
            <<<<"o", "c", "t", "o", "b", "e", "r">>, 10>>,
            <<<<"n", "o", "v">>, 11>>,
            <<<<"n", "o", "v", "e", "m", "b", "e", "r">>, 11>>,
            <<<<"d", "e", "c">>, 12>>,
            <<<<"d", "e", "c", "e", "m", "b", "e", "r">>, 12>>}
    IN  IF \E p \in MONTHS : p[1] = name
        THEN (CHOOSE p \in MONTHS : p[1] = name)[2] ELSE 0

\* The proleptic Gregorian calendar of datetime.  A reading of the
\* classifier's clock is [year, month, day, hour]; DayNumber counts days from
\* the first of January of EpochYear, the day 0 of the stored timestamps.
EpochYear == 2026

DaysInMonth(y, m) ==
    IF m \in {4, 6, 9, 11} THEN 30
    ELSE IF m # 2 THEN 31
    ELSE IF (y % 4 = 0 /\ y % 100 # 0) \/ y % 400 = 0 THEN 29 ELSE 28

\* datetime(y, m, d, ...) raises ValueError unless the date exists.
ValidDate(y, m, d) == m \in 1..12 /\ d \in 1..DaysInMonth(y, m)

DayNumber(y, m, d) ==
    LET leaps(x) == ((x - 1) \div 4) - ((x - 1) \div 100) + ((x - 1) \div 400)
        before == <<0, 31, 59, 90, 120, 151, 181, 212, 243, 273, 304, 334>>
    IN  365 * (y - EpochYear) + leaps(y) - leaps(EpochYear) + before[m]
            + (IF m > 2 /\ DaysInMonth(y, 2) = 29 THEN 1 ELSE 0) + d - 1

\* The hour of the events the parser builds with datetime(..., 9, 0).
EventHour == 9

\* A timezone-aware event instant: day number and hour of the day.
AwareAt(t, hour) == [kind |-> "aware", t |-> t, hour |-> hour]

\* The clock reading of a stored-timestamp day, in the afternoon.
ClockHour == 15

CalendarOf(at) ==
    IF at < 31
    THEN [year |-> EpochYear, month |-> 1, day |-> at + 1, hour |-> ClockHour]
    ELSE CHOOSE c \in [year : EpochYear..(EpochYear + 1), month : 1..12,
                       day : 1..31, hour : {ClockHour}] :
            ValidDate(c.year, c.month, c.day) /\ DayNumber(c.year, c.month, c.day) = at

\* Regular-expression primitives of re.search and re.findall.
Digits == {"0", "1", "2", "3", "4", "5", "6", "7", "8", "9"}

Letters == Range(UpperChars) \cup Range(LowerChars)

\* int() of the len digits of s from p.
RECURSIVE NumberAt(_, _, _)
NumberAt(s, p, len) ==
    IF len = 0 THEN 0
    ELSE 10 * NumberAt(s, p, len - 1)
         + (CHOOSE n \in 0..9 :
               s[p + len - 1] = <<"0", "1", "2", "3", "4", "5", "6", "7", "8", "9">>[n + 1])

\* \b before position p.
Boundary(s, p) ==
    LET word(k) == k \in DOMAIN s /\ s[k] \in Letters \cup Digits \cup {"_"}
    IN  word(p - 1) # word(p)

\* \d{len} at p
DigitsAt(s, p, len) ==
    /\ p >= 1
    /\ p + len - 1 <= Len(s)
    /\ \A k \in p..(p + len - 1) : s[k] \in Digits

\* Length of the run of characters of S from p (a greedy repetition).
RunIn(s, p, S) ==
    CHOOSE k \in 0..(Len(s) + 1) :
        /\ \A j \in p..(p + k - 1) : j \in DOMAIN s /\ s[j] \in S
        /\ (p + k \in DOMAIN s) => s[p + k] \notin S

\* Length of the run of whitespace (\s*) from p.
SpacesAt(s, p) == RunIn(s, p, {" ", "\t", "\n"})

\* re.search(r'\b(20\d{2})-(\d{1,2})-(\d{1,2})\b', s): <<groups>> of the
\* match, <<>> for None.  The match is the leftmost, and there the first in
\* the backtracking order (greedy quantifiers first).
IsoMatch(s) ==
    LET at(c) ==
            /\ Boundary(s, c.i)
            /\ DigitsAt(s, c.i, 4) /\ s[c.i] = "2" /\ s[c.i + 1] = "0"
            /\ c.i + 4 \in DOMAIN s /\ s[c.i + 4] = "-"
            /\ DigitsAt(s, c.i + 5, c.lm)
            /\ c.i + 5 + c.lm \in DOMAIN s /\ s[c.i + 5 + c.lm] = "-"
            /\ DigitsAt(s, c.i + 6 + c.lm, c.ld)
            /\ Boundary(s, c.i + 6 + c.lm + c.ld)
        rank(c) == 100 * c.i - (10 * c.lm + c.ld)
        groups(m) == [y |-> NumberAt(s, m.i, 4), mo |-> NumberAt(s, m.i + 5, m.lm),
                      d |-> NumberAt(s, m.i + 6 + m.lm, m.ld)]
        first(C) == IF C = {} THEN <<>>
                    ELSE <<groups(CHOOSE x \in C : \A y \in C : rank(x) <= rank(y))>>
    IN  first({c \in [i : DOMAIN s, lm : 1..2, ld : 1..2] : at(c)})

\* re.search of the Month-Day pattern
\*   \b([A-Za-z]{3,9})\s+(\d{1,2})(?:st|nd|rd|th)?(?:,?\s*(20\d{2}))?\b
\* or, with dayFirst, of the Day-Month pattern
\*   \b(\d{1,2})(?:st|nd|rd|th)?\s+([A-Za-z]{3,9})(?:,?\s*(20\d{2}))?\b
\* <<[mon, day, year_raw]>> of the match (mon 0 for an unknown name, year_raw
\* <<>> when the year group takes no part), <<>> for None.
DatedMatch(s, dayFirst) ==
    LET \* (?:st|nd|rd|th) at p: its length, 0 when absent.
        SuffixLen(p) ==
            IF p >= 1 /\ p + 1 <= Len(s)
               /\ <<s[p], s[p + 1]>> \in {<<"s", "t">>, <<"n", "d">>, <<"r", "d">>, <<"t", "h">>}
            THEN 2 ELSE 0
        year(q) ==
            LET comma == IF q \in DOMAIN s /\ s[q] = "," THEN 1 ELSE 0
                y == q + comma + SpacesAt(s, q + comma)
            IN  IF DigitsAt(s, y, 4) /\ s[y] = "2" /\ s[y + 1] = "0"
                THEN <<y>> ELSE <<>>
        tail(q, yr) ==
            IF yr THEN year(q) # <<>> /\ Boundary(s, year(q)[1] + 4)
            ELSE Boundary(s, q)
        name(c) ==
            IF dayFirst THEN c.i + c.ld + c.suf + SpacesAt(s, c.i + c.ld + c.suf)
            ELSE c.i
        L(c) == RunIn(s, name(c), Letters)
        day(c) == IF dayFirst THEN c.i ELSE c.i + L(c) + SpacesAt(s, c.i + L(c))
        end(c) == IF dayFirst THEN name(c) + L(c) ELSE day(c) + c.ld + c.suf
        at(c) ==
            /\ Boundary(s, c.i)
            /\ L(c) \in 3..9
            /\ name(c) > day(c) => SpacesAt(s, day(c) + c.ld + c.suf) >= 1
            /\ day(c) > name(c) => SpacesAt(s, name(c) + L(c)) >= 1
            /\ DigitsAt(s, day(c), c.ld)
            /\ c.suf = 2 => SuffixLen(day(c) + c.ld) = 2
            /\ tail(end(c), c.yr)
        rank(c) == 1000 * c.i - (100 * c.ld + 10 * c.suf + (IF c.yr THEN 1 ELSE 0))
        groups(m) ==
            [mon |-> MonthOf(Lower(SubSeq(s, name(m), name(m) + L(m) - 1))),
             day |-> NumberAt(s, day(m), m.ld),
             year_raw |-> IF m.yr THEN <<NumberAt(s, year(end(m))[1], 4)>> ELSE <<>>]
        first(C) == IF C = {} THEN <<>>
                    ELSE <<groups(CHOOSE x \in C : \A y \in C : rank(x) <= rank(y))>>
    IN  first({c \in [i : DOMAIN s, ld : 1..2, suf : {0, 2}, yr : BOOLEAN] : at(c)})

\* The try block shared by the Month-Day and Day-Month patterns: <<instant>>
\* when it returns, <<>> when the month is unknown or datetime raised (pass).
DatedResult(g, at) ==
    LET year == IF g.year_raw # <<>> THEN g.year_raw[1] ELSE at.year
        past == \/ DayNumber(year, g.mon, g.day) < DayNumber(at.year, at.month, at.day)
                \/ /\ DayNumber(year, g.mon, g.day) = DayNumber(at.year, at.month, at.day)
                   /\ EventHour < at.hour
    IN  IF g.mon = 0 \/ ~ValidDate(year, g.mon, g.day) THEN <<>>
        ELSE IF g.year_raw = <<>> /\ past
        THEN (IF ValidDate(year + 1, g.mon, g.day)
              THEN <<AwareAt(DayNumber(year + 1, g.mon, g.day), EventHour)>>
              ELSE <<>>)
        ELSE <<AwareAt(DayNumber(year, g.mon, g.day), EventHour)>>

\* What a call returns: a value, or the exception that leaves it.
Returns(v) == [raised |-> "", value |-> v]
Raises(e) == [raised |-> e, value |-> <<>>]

\* The relative phrases, tried after the dated patterns.  The fallback of
\* 'next month', the same day of the next month, is built outside any try
\* block.
RelativePhrases(s_lower, at) ==
    LET \* (?:st|nd|rd|th) at p: its length, 0 when absent.
        SuffixLen(s, p) ==
            IF p >= 1 /\ p + 1 <= Len(s)
               /\ <<s[p], s[p + 1]>> \in {<<"s", "t">>, <<"n", "d">>, <<"r", "d">>, <<"t", "h">>}
            THEN 2 ELSE 0
        \* The dated 'next month' form: re.search on s_lower of
        \*   next month\s+(?:(\d{1,2})(?:st|nd|rd|th)?\s+)?([A-Za-z]{3,9})(?:\s+(\d{1,2})(?:st|nd|rd|th)?)?
        \* and its try block (day_raw is group 1 or group 3; an event before now
        \* moves to the next year).  <<instant>>, or <<>> to fall through.
        NextMonthDated(s) ==
            LET p(c) == c.i + 10 + SpacesAt(s, c.i + 10)
                ld(c) == IF DigitsAt(s, p(c), 2) THEN 2 ELSE 1
                e(c) == p(c) + ld(c) + SuffixLen(s, p(c) + ld(c))
                name(c) == IF c.g1 THEN e(c) + SpacesAt(s, e(c)) ELSE p(c)
                at_(c) ==
                    /\ c.i + 9 <= Len(s)
                    /\ SubSeq(s, c.i, c.i + 9) = <<"n", "e", "x", "t", " ", "m", "o", "n", "t", "h">>
                    /\ SpacesAt(s, c.i + 10) >= 1
                    /\ c.g1 => (DigitsAt(s, p(c), 1) /\ SpacesAt(s, e(c)) >= 1)
                    /\ RunIn(s, name(c), Letters) >= 3
                rank(c) == 10 * c.i - (IF c.g1 THEN 1 ELSE 0)
                L(m) == Min(9, RunIn(s, name(m), Letters))
                d(m) == name(m) + L(m) + SpacesAt(s, name(m) + L(m))
                day(m) == IF m.g1 THEN <<NumberAt(s, p(m), ld(m))>>
                          ELSE IF d(m) > name(m) + L(m) /\ DigitsAt(s, d(m), 1)
                          THEN <<NumberAt(s, d(m), IF DigitsAt(s, d(m), 2) THEN 2 ELSE 1)>>
                          ELSE <<>>
                dated(mon, day_raw) ==
                    IF day_raw = <<>> THEN <<>>
                    ELSE DatedResult([mon |-> mon, day |-> day_raw[1], year_raw |-> <<>>], at)
                groups(m) == dated(MonthOf(SubSeq(s, name(m), name(m) + L(m) - 1)), day(m))
                first(C) == IF C = {} THEN <<>>
                            ELSE groups(CHOOSE x \in C : \A y \in C : rank(x) <= rank(y))
            IN  first({c \in [i : DOMAIN s, g1 : BOOLEAN] : at_(c)})
        today == DayNumber(at.year, at.month, at.day)
        y == IF at.month = 12 THEN at.year + 1 ELSE at.year
        m == IF at.month = 12 THEN 1 ELSE at.month + 1
        next_month(dated) ==
            IF dated # <<>> THEN Returns(dated)
            ELSE IF ValidDate(y, m, at.day)
            THEN Returns(<<AwareAt(DayNumber(y, m, at.day), EventHour)>>)
            ELSE Raises("ValueError")
    IN  IF Contains(<<"n", "e", "x", "t", " ", "m", "o", "n", "t", "h">>, s_lower)
        THEN next_month(NextMonthDated(s_lower))
        ELSE IF Contains(<<"t", "o", "m", "o", "r", "r", "o", "w">>, s_lower)
        THEN Returns(<<AwareAt(today + TomorrowDays, at.hour)>>)
        ELSE IF Contains(<<"n", "e", "x", "t", " ", "w", "e", "e", "k">>, s_lower)
        THEN Returns(<<AwareAt(today + NextWeekDays, at.hour)>>)
        ELSE Returns(<<>>)

\* _try_parse_event_date(now, content): Returns(<<instant>>), Returns(<<>>)
\* for None, or Raises("ValueError").  The ISO, Month-Day and Day-Month
\* patterns in order, then the relative phrases.
TryParseEventDate(at, content) ==
    LET s == Strip(content)
        try(m) == IF m # <<>> THEN DatedResult(m[1], at) ELSE <<>>
        day_month(r) == IF r # <<>> THEN Returns(r)
                        ELSE RelativePhrases(Lower(s), at)
        month_day(r) == IF r # <<>> THEN Returns(r)
                        ELSE day_month(try(DatedMatch(s, TRUE)))
        iso(m) == IF m # <<>> /\ ValidDate(m[1].y, m[1].mo, m[1].d)
                  THEN Returns(<<AwareAt(DayNumber(m[1].y, m[1].mo, m[1].d), EventHour)>>)
                  ELSE month_day(try(DatedMatch(s, FALSE)))
    IN  IF s = <<>> THEN Returns(<<>>) ELSE iso(IsoMatch(s))

\* out with "type" and "event_date" added when a date was found.
WithEvent(out, event_date) ==
    IF event_date # <<>>
    THEN [k \in DOMAIN out \cup {"type", "event_date"} |->
            IF k = "type" THEN "event"
            ELSE IF k = "event_date" THEN event_date[1] ELSE out[k]]
    ELSE out

\* Variant of the default classification that expires with the exam rule.
DefaultClassification_AsExam(content_lower, event_date, today) ==
    WithEvent([durability |-> "medium",
               expires_at |-> Aware(today + StudentExamDays)],
              IF AnyIn(EventKeywords, content_lower) THEN event_date ELSE <<>>)

\* `# Default classification`
DefaultClassification(content_lower, event_date, today) ==
    WithEvent([durability |-> "medium",
               expires_at |-> Aware(today + DefaultDays)],
              IF AnyIn(EventKeywords, content_lower) THEN event_date ELSE <<>>)

\* classify_memory(role, content, context) at the clock reading at:
\* Returns(dict), or the exception of _try_parse_event_date, which it does
\* not catch.  context is a dict, empty when the caller passes none; its
\* exam_date is a string that datetime.fromisoformat reads as an offset-aware
\* or a naive instant, or rejects.
classify_memory(role, content, context, at) ==
    LET \* The branches of classify_memory once the date is parsed.  expires_at
        \* keeps the day of the instant it is computed from.
        ClassifyWith(content_lower, event_date, today) ==
            LET ParentEventKeywords ==
                    { <<"b", "i", "r", "t", "h", "d", "a", "y">>,
                      <<"p", "a", "r", "t", "y">>,
                      <<"c", "e", "l", "e", "b", "r", "a", "t", "i", "o", "n">>,
                      <<"s", "c", "h", "o", "o", "l", " ", "e", "v", "e", "n", "t">>,
                      <<"p", "a", "r", "e", "n", "t", "-", "t", "e", "a", "c", "h", "e", "r">>,
                      <<"f", "i", "e", "l", "d", " ", "t", "r", "i", "p">>,
                      <<"p", "l", "a", "y">>, <<"s", "h", "o", "w">> }
            IN  IF role = "parent" /\ AnyIn(ParentEventKeywords, content_lower)
                                   /\ event_date # <<>>
                THEN [durability |-> "medium",
                      expires_at |-> Aware(event_date[1].t + ParentEventGrace),
                      type |-> "event", event_date |-> event_date[1]]
                ELSE IF role = "parent" /\ AnyIn(ParentEphemeralKeywords, content_lower)
                THEN [durability |-> "ephemeral", expires_at |-> Aware(today + ParentEphemeralDays)]
                ELSE IF role = "student" /\ AnyIn(StudentExamKeywords, content_lower)
                THEN IF IsoParses(Get(context, "exam_date", IsoNone))
                     THEN [durability |-> "medium",
                           expires_at |-> [kind |-> context.exam_date.kind,
                                           t |-> context.exam_date.t + ExamHintDays]]
                     ELSE WithEvent([durability |-> "medium",
                                     expires_at |-> Aware(today + StudentExamDays)],
                                    event_date)
                ELSE IF role = "student" /\ AnyIn(StudentEphemeralKeywords, content_lower)
                THEN [durability |-> "ephemeral", expires_at |-> Aware(today + StudentEphemeralDays)]
                ELSE IF role = "job" /\ AnyIn(JobLongKeywords, content_lower)
                THEN WithEvent([durability |-> "long", expires_at |-> IsoNone],
                               IF Contains(<<"i", "n", "t", "e", "r", "v", "i", "e", "w">>, content_lower)
                               THEN event_date ELSE <<>>)
                ELSE IF role = "job" /\ AnyIn(JobMediumKeywords, content_lower)
                THEN WithEvent([durability |-> "medium",
                                expires_at |-> Aware(today + JobMediumDays)], event_date)
                ELSE DefaultClassification(content_lower, event_date, today)
        after(parsed) ==
            IF parsed.raised # "" THEN Raises(parsed.raised)
            ELSE Returns(ClassifyWith(Lower(content), parsed.value,
                                      DayNumber(at.year, at.month, at.day)))
    IN  after(TryParseEventDate(at, content))

(***************************************************************************)
(* write_back_memories                                                     *)
(***************************************************************************)
\* 'Important: '
ImportantPrefix ==
    <<"I", "m", "p", "o", "r", "t", "a", "n", "t", ":", " ">>

SummaryPrefixLen == 150
FactPrefixLen == 200

\* f"User asked: {user_message[:150]}. Assistant provided guidance on this topic."
SummaryText(user_message) ==
    LET \* '. Assistant provided guidance on this topic.'
        SummarySuffix ==
            <<".", " ", "A", "s", "s", "i", "s", "t", "a", "n", "t", " ", "p", "r",
              "o", "v", "i", "d", "e", "d", " ", "g", "u", "i", "d", "a", "n", "c",
              "e", " ", "o", "n", " ", "t", "h", "i", "s", " ", "t", "o", "p", "i",
              "c", ".">>
        \* 'User asked: '
        UserAskedPrefix ==
            <<"U", "s", "e", "r", " ", "a", "s", "k", "e", "d", ":", " ">>
    IN  UserAskedPrefix \o Take(user_message, SummaryPrefixLen) \o SummarySuffix

\* f"Important: {llm_response[:200]}"
FactText(llm_response) == ImportantPrefix \o Take(llm_response, FactPrefixLen)

WriteBackKeywords == {"role", "extra_container_tags"}

\* metadata of the summary memory
SummaryMetadata(user_id, role, base_role, classification, at) ==
    LET \* d with d[k] = v
        WithKey(d, k, v) == [j \in DOMAIN d \cup {k} |-> IF j = k THEN v ELSE d[j]]
        base == [mode |-> role, base_role |-> base_role, source |-> "chat",
                 createdAt |-> Aware(at), userId |-> user_id,
                 durability |-> Get(classification, "durability", "medium"),
                 expires_at |-> Get(classification, "expires_at", IsoNone)]
        typed == IF "type" \in DOMAIN classification
                 THEN WithKey(base, "type", classification.type) ELSE base
    IN  IF "event_date" \in DOMAIN classification
        THEN WithKey(typed, "event_date", classification.event_date) ELSE typed

\* metadata of the fact memory: type stays 'fact' for an event, and takes any
\* other type of the classification.
FactMetadata_AsClassified(user_id, role, base_role, classification, at) ==
    WithEvent([mode |-> role, base_role |-> base_role, source |-> "chat",
               type |-> "fact", createdAt |-> Aware(at), userId |-> user_id,
               durability |-> Get(classification, "durability", "medium"),
               expires_at |-> Get(classification, "expires_at", IsoNone)],
              IF "event_date" \in DOMAIN classification
              THEN <<classification.event_date>> ELSE <<>>)

FactMetadata(user_id, role, base_role, classification, at) ==
    [mode |-> role, base_role |-> base_role, source |-> "chat",
     type |-> IF "type" \in DOMAIN classification /\ classification.type # "event"
              THEN classification.type ELSE "fact",
     createdAt |-> Aware(at), userId |-> user_id,
     durability |-> Get(classification, "durability", "medium"),
     expires_at |-> Get(classification, "expires_at", IsoNone)]

\* A call of create_memory with keyword arguments: binding an argument the
\* function does not declare raises TypeError before anything is sent.
CallCreateMemory(docs, user_id, text, metadata, role, keywords) ==
    LET \* The parameters create_memory declares, and the keyword arguments the
        \* write-back passes to it.
        CreateMemoryParams == {"user_id", "text", "metadata", "role"}
    IN  IF keywords \subseteq CreateMemoryParams
        THEN LET r == create_memory(docs, user_id, text, metadata, role, "ok", "ok", "ok")
             IN  [raised |-> r.raised, error |-> None, value |-> r.value,
                  requests |-> r.requests, docs |-> r.docs]
        ELSE [raised |-> TRUE, error |-> "TypeError", value |-> <<>>,
              requests |-> <<>>, docs |-> docs]

\* `if duplicate:` the PUT on the duplicate's id with the merged metadata; a
\* failed update is caught and clears `duplicate`.
UpdateDuplicate(st, summary_text, metadata, put_outcome) ==
    LET \* {**old, **new}
        MergeDicts(old, new) ==
            [k \in DOMAIN old \cup DOMAIN new |-> IF k \in DOMAIN new THEN new[k] ELSE old[k]]
        \* The store after PUT /memories/{id} with a text and a metadata.
        UpdatedDocs(docs, id, text, metadata0) ==
            [i \in DOMAIN docs |->
                IF docs[i].id = id
                THEN [k \in DOMAIN docs[i] |->
                         IF k \in {"text", "content"} THEN text
                         ELSE IF k = "metadata" THEN metadata0 ELSE docs[i][k]]
                ELSE docs[i]]
    IN  IF st.duplicate = <<>> THEN st
        ELSE LET memory_id == st.duplicate[1].id
                 merged == MergeDicts(st.duplicate[1].metadata, metadata)
                 put == [id |-> memory_id, text |-> summary_text,
                         metadata |-> merged, outcome |-> put_outcome]
             IN  IF put_outcome = "ok"
                 THEN [st EXCEPT !.docs = UpdatedDocs(@, memory_id, summary_text, merged),
                                 !.memory_ids = Append(@, memory_id),
                                 !.puts = Append(@, put)]
                 ELSE [st EXCEPT !.duplicate = <<>>, !.puts = Append(@, put)]

\* `result = create_memory(...)` followed by `if result and result.get('id')`
AfterCreate(st, kind, r) ==
    IF r.raised
    THEN [st EXCEPT !.error = r.error, !.creates = Append(@, kind)]
    ELSE [st EXCEPT !.docs = r.docs,
                    !.memory_ids = IF r.value # <<>> THEN Append(@, r.value[1].id)
                                   ELSE @,
                    !.creates = Append(@, kind)]

\* `if not duplicate:` binds extra_tags and creates the summary memory.
CreateSummary(st, user_id, summary_text, metadata, role) ==
    IF st.duplicate # <<>> THEN st
    ELSE AfterCreate([st EXCEPT !.extra_tags_bound = TRUE], "summary",
                     CallCreateMemory(st.docs, user_id, summary_text, metadata,
                                      role, WriteBackKeywords))

\* The fact block once fact_metadata is built: the create_memory call reads
\* extra_tags.
FactStage(st, user_id, role, llm_response, fact_metadata) ==
    IF ~st.extra_tags_bound
    THEN [st EXCEPT !.facts = Append(@, fact_metadata),
                    !.error = "UnboundLocalError"]
    ELSE AfterCreate([st EXCEPT !.facts = Append(@, fact_metadata)], "fact",
                     CallCreateMemory(st.docs, user_id, FactText(llm_response),
                                      fact_metadata, role, WriteBackKeywords))

\* `if has_keywords:` builds fact_text and fact_metadata and creates the fact
\* memory.
CreateFact(st, user_id, role, base_role, llm_response, at) ==
    LET FactKeywords ==
            { <<"a", "p", "p", "l", "i", "e", "d">>,
              <<"d", "e", "a", "d", "l", "i", "n", "e">>, <<"e", "x", "a", "m">>,
              <<"e", "v", "e", "n", "t">>, <<"m", "e", "e", "t", "i", "n", "g">> }
        classified(c) ==
            IF c.raised # "" THEN [st EXCEPT !.error = c.raised]
            ELSE FactStage(st, user_id, role, llm_response,
                           FactMetadata(user_id, role, base_role, c.value, at))
    IN  IF st.error # None \/ ~AnyIn(FactKeywords, Lower(llm_response)) THEN st
        ELSE classified(classify_memory(base_role, FactText(llm_response),
                                        EmptyDict, CalendarOf(at)))

WriteBackBlocks(docs, user_id, role, base_role, summary_text, metadata, llm_response, chk, put_outcome, at) ==
    LET \* `return memory_ids`, or the exception
        WriteBackReturn(st) ==
            [raised |-> st.error # None, error |-> st.error,
             value |-> IF st.error # None THEN <<>> ELSE st.memory_ids,
             searched |-> st.searched, found |-> st.found, puts |-> st.puts,
             creates |-> st.creates, facts |-> st.facts, docs |-> st.docs]
        \* write_back_memories runs in three blocks over its local state: the
        \* store, memory_ids, `duplicate`, whether extra_tags is bound, and the
        \* calls issued.  `error` is the exception that leaves the function.
        WriteBackStart ==
            [docs |-> docs, memory_ids |-> <<>>, duplicate |-> chk.value,
             extra_tags_bound |-> FALSE, error |-> None,
             searched |-> chk.searched, found |-> chk.value,
             puts |-> <<>>, creates |-> <<>>, facts |-> <<>>]
    IN  WriteBackReturn(
            CreateFact(
                CreateSummary(
                    UpdateDuplicate(WriteBackStart, summary_text, metadata,
                                    put_outcome),
                    user_id, summary_text, metadata, role),
                user_id, role, base_role, llm_response, at))

write_back_memories(docs, user_id, role, user_message, llm_response, context_bundle, search_outcome, put_outcome, at) ==
    LET \* classify_memory raised on the summary text: nothing was searched or sent.
        WriteBackRaised(e) ==
            [raised |-> TRUE, error |-> e, value |-> <<>>,
             searched |-> <<>>, found |-> <<>>, puts |-> <<>>,
             creates |-> <<>>, facts |-> <<>>, docs |-> docs]
        BaseRoleOf ==
            IF Truthy(Get(context_bundle, "base_role", None))
            THEN context_bundle.base_role ELSE role
        classified(c) ==
            IF c.raised # "" THEN WriteBackRaised(c.raised)
            ELSE WriteBackBlocks(docs, user_id, role, BaseRoleOf,
                    SummaryText(user_message),
                    SummaryMetadata(user_id, role, BaseRoleOf, c.value, at),
                    llm_response,
                    check_duplicate_memory(docs, user_id, role, user_message,
                                           search_outcome, at),
                    put_outcome, at)
    IN  classified(classify_memory(BaseRoleOf, SummaryText(user_message),
                                   EmptyDict, CalendarOf(at)))

(***************************************************************************)
(* The store client under its callers.                                     *)
(***************************************************************************)
Users == {"u1"}
ModeKeys == {"student", "job"}
ReadRoles == ModeKeys \cup {None}
ReadOutcomes == {"ok", "h500", "net", "malformed"}
NoCall == [op |-> "none"]

Init ==
    /\ store = <<>>
    /\ modes = {}
    /\ now = 0
    /\ call = NoCall

Tick ==
    /\ now < MaxTime
    /\ now' = now + 1
    /\ call' = [op |-> "tick"]
    /\ UNCHANGED <<store, modes>>

\* One call of create_memory; with anyOutcome under every failure pattern of
\* its requests, else with every metadata the callers write.
CreateMemory(anyOutcome) ==
    LET Outcomes == {"ok", "h400", "h500", "net", "malformed"}
        SomeText == <<"x">>
        PlainMetadata(mode) == {[mode |-> mode]}
        \* Writes that reach the store at the first attempt or not at all.
        StoreScripts == {<<"ok", "ok", "ok">>, <<"net", "ok", "ok">>}
        \* Metadata the callers write.  expires_at is offset-aware when it comes from
        \* classify_memory (an instant, possibly past already for a dated event) or
        \* None (a job application), the bare date 'YYYY-MM-DD' when it comes from
        \* the calendar import, which cuts it from the DTSTART line unchecked (so
        \* possibly no date at all), or absent.
        WriteMetadata(mode) ==
            {[mode |-> mode, expires_at |-> e] :
                e \in {Aware(MaxTime - 1), Naive(0), IsoNone,
                       [kind |-> "invalid", t |-> 0]}}
                \cup {[mode |-> mode]}
        \* The outcomes of the requests one create_memory call can meet (slots the
        \* call never reaches are "ok").
        WriteScripts ==
            {s \in Outcomes \X Outcomes \X Outcomes :
                /\ (s[1] # "h400" => s[2] = "ok")
                /\ (~IsHTTPError(s[1]) \/ (s[1] = "h400" /\ ~IsHTTPError(s[2])) => s[3] = "ok")}
    IN  /\ Len(store) < MaxStore
        /\ \E user_id \in Users, role \in ModeKeys :
             \E s \in IF anyOutcome THEN WriteScripts ELSE StoreScripts,
                metadata \in IF anyOutcome THEN PlainMetadata(role) ELSE WriteMetadata(role) :
               LET r == create_memory(store, user_id, SomeText, metadata, role,
                                      s[1], s[2], s[3])
               IN  /\ store' = r.docs
                   /\ call' = [op |-> "create", user_id |-> user_id, role |-> role,
                               raised |-> r.raised, value |-> r.value,
                               requests |-> r.requests, outcomes |-> r.outcomes,
                               before |-> store]
        /\ UNCHANGED <<modes, now>>

SearchMemories ==
    /\ \E user_id \in Users, role \in ReadRoles, outcome \in ReadOutcomes :
         LET tags == ContainerTags(user_id, role)
             answer == IF outcome = "ok"
                       THEN StoreAnswer(store, tags, "any", FALSE, DefaultSearchLimit, TRUE)
                       ELSE <<>>
             r == search_memories(answer, outcome, role, now)
         IN  call' = [op |-> "search", user_id |-> user_id, role |-> role,
                      limit |-> DefaultSearchLimit, at |-> now,
                      answers |-> <<answer>>, outcomes |-> <<outcome>>,
                      raised |-> r.raised, value |-> r.value,
                      requests |-> r.requests, before |-> store]
    /\ UNCHANGED <<store, modes, now>>

GetRecentMemories ==
    /\ \E user_id \in Users, role \in ReadRoles, o1, o2 \in ReadOutcomes :
         LET tags == ContainerTags(user_id, role)
             answer == StoreAnswer(store, tags, "any", TRUE, DefaultRecentLimit, TRUE)
             a1 == IF o1 = "ok" THEN answer ELSE <<>>
             a2 == IF IsHTTPError(o1) /\ o2 = "ok" THEN answer ELSE <<>>
             r == get_recent_memories(a1, o1, a2, o2, role, DefaultRecentLimit, now)
         IN  call' = [op |-> "recent", user_id |-> user_id, role |-> role,
                      limit |-> DefaultRecentLimit, at |-> now,
                      answers |-> IF Len(r.requests) = 1 THEN <<a1>> ELSE <<a1, a2>>,
                      outcomes |-> IF Len(r.requests) = 1 THEN <<o1>> ELSE <<o1, o2>>,
                      raised |-> r.raised, value |-> r.value,
                      requests |-> r.requests, before |-> store]
    /\ UNCHANGED <<store, modes, now>>

StoreDocument == CreateMemory(FALSE)

Next ==
    \/ Tick
    \/ StoreDocument
    \/ SearchMemories
    \/ GetRecentMemories

Spec == Init /\ [][Next]_vars

(***************************************************************************)
(* create_memory under every failure pattern of the store: SpecWrite.      *)
(***************************************************************************)
CreateAnyOutcome == CreateMemory(TRUE)

SpecWrite == Init /\ [][CreateAnyOutcome]_vars

(***************************************************************************)
(* rerank_and_trim on candidate lists: SpecRank.                           *)
(***************************************************************************)
MaxCandidates == 3

InitRank ==
    LET \* 'Ab ab  c' (a repeated token in two cases, a double blank), 'x ' and ''.
        RankMessages ==
            { <<"A", "b", " ", "a", "b", " ", " ", "c">>, <<"x", " ">>, <<>> }
        \* max_items: the two budgets of build_context_for_turn and a tighter one.
        RankLimits == {2, 3, 5}
        IsoGarbage == [kind |-> "garbage", t |-> 0]
        \* The dict with its id, the position in the candidate list.
        WithId(mem, id) ==
            [k \in DOMAIN mem \cup {"id"} |-> IF k = "id" THEN id ELSE mem[k]]
        \* Candidates as the store may answer them; createdAt is relative to the call.
        RankPool(at) ==
            { [text |-> <<"a", "b", " ", "c">>, metadata |-> [createdAt |-> Aware(at - RecentDays)]],
              [text |-> <<"x", "A", "B">>, metadata |-> [createdAt |-> Aware(at - RecentDays + 1)]],
              [text |-> <<"c">>, metadata |-> [mode |-> "student"]],
              [content |-> <<"a", "b">>, metadata |-> [createdAt |-> Naive(at - 1)]],
              [text |-> <<"z", "z">>, metadata |-> [createdAt |-> IsoGarbage]],
              [text |-> <<"a", "b">>, metadata |-> [createdAt |-> Aware(at - RecentDays)]] }
        RankCandidates(at) ==
            UNION { { [i \in 1..n |-> WithId(c[i], i)] : c \in [1..n -> RankPool(at)] } :
                    n \in 0..MaxCandidates }
    IN  /\ store = <<>>
        /\ modes = {}
        /\ now = 0
        /\ call \in { [op |-> "rerank_input", search_results |-> c,
                       user_message |-> m, max_items |-> k] :
                      c \in RankCandidates(0), m \in RankMessages, k \in RankLimits }

RerankAndTrim ==
    /\ call.op = "rerank_input"
    /\ call' = [op |-> "rerank", search_results |-> call.search_results,
                user_message |-> call.user_message, max_items |-> call.max_items,
                at |-> now,
                value |-> rerank_and_trim(call.search_results, call.user_message,
                                          call.max_items, now)]
    /\ UNCHANGED <<store, modes, now>>

SpecRank == InitRank /\ [][RerankAndTrim]_vars

(***************************************************************************)
(* Context assembly over a filled store and the user's modes: SpecCtx.     *)
(***************************************************************************)
MaxPerMode == 6

\* The modes memories were written under: chats in student, job and the
\* custom mode work, and the calendar import's 'default'.
CtxModes == <<"student", "job", "work", "default">>

CtxStore(n) ==
    LET \* Document k of a store holding n documents per mode: the modes take turns,
        \* texts and ages alternate by round, documents come through either payload
        \* field, and the calendar's carry a date-only expires_at.
        CtxDocument(k, user_id) ==
            LET mode == CtxModes[((k - 1) % Len(CtxModes)) + 1]
                round == (k - 1) \div Len(CtxModes)
                text == IF round % 2 = 0 THEN <<"X">> ELSE <<"y">>
                createdAt == IF round % 2 = 0 THEN Aware(0) ELSE Aware(0 - RecentDays)
                metadata == IF mode = "default"
                            THEN [mode |-> mode, type |-> "event", expires_at |-> Naive(1)]
                            ELSE [mode |-> mode, createdAt |-> createdAt]
            IN  NewDocument(k, IF round % 3 = 2 THEN "content" ELSE "text", text, metadata,
                            Range(ContainerTags(user_id, mode)))
    IN  [k \in 1..(n * Len(CtxModes)) |-> CtxDocument(k, "u1")]

\* Store behaviour without failures.
CtxEnvs(n) ==
    { [profile_stored |-> ps, profile |-> "ok", recent |-> <<"ok", "ok">>,
       search |-> "ok", cross |-> [i \in 1..n |-> "ok"], honoured |-> h] :
      ps \in {"good"}, h \in BOOLEAN }

\* Store behaviour with every pattern of failing requests.
FailEnvs(n) ==
    { [profile_stored |-> ps[1], profile |-> ps[2], recent |-> r, search |-> sr,
       cross |-> c, honoured |-> TRUE] :
      ps \in {<<"good", "ok">>, <<"good", "net">>, <<"badshape", "ok">>, <<"badjson", "ok">>},
      r \in {<<"ok", "ok">>, <<"h500", "ok">>, <<"h500", "malformed">>, <<"net", "ok">>},
      sr \in {"ok", "h500"},
      c \in [1..n -> {"ok", "net"}] }

InitCtx ==
    /\ store \in {CtxStore(n) : n \in {0, 1, MaxPerMode}}
    /\ modes = {}
    /\ now = 0
    /\ call = NoCall

InitFail ==
    /\ store = CtxStore(2)
    /\ modes = {}
    /\ now = 0
    /\ call = NoCall

\* The turn under study ends a behaviour: what a turn yields does not depend
\* on the call before it, so nothing new is reached after one.
BeforeTurn == call.op # "context"

\* Requests to create a mode: by name alone, with a blank key, without a name.
WorkModeInputs == {[key |-> None, name |-> "Work", defaultTags |-> <<"office">>]}
\* POST /api/modes
CreateMode(anyInput) ==
    LET ModeInputs ==
            WorkModeInputs \cup {[key |-> " ", name |-> "Blank", defaultTags |-> <<>>],
                                 [key |-> None, name |-> " ", defaultTags |-> <<>>]}
    IN  /\ BeforeTurn
        /\ \E user_id \in Users, in \in IF anyInput THEN ModeInputs ELSE WorkModeInputs :
             LET key == StripKey(IF Truthy(in.key) THEN in.key ELSE slugify_mode_key(in.name))
                 fresh == Truthy(StripKey(in.name)) /\ RowsFor(modes, user_id, key) = {}
             IN  \E order \in IF fresh THEN Orders(OtherKeys(modes, user_id, key))
                              ELSE {<<>>} :
                   LET r == create_mode(modes, user_id, in.name, in.key, None, in.defaultTags, order)
                   IN  /\ modes' = r.rows
                       /\ call' = [op |-> "create_mode", user_id |-> user_id,
                                   name |-> in.name, key_given |-> in.key,
                                   status |-> r.status, key |-> r.key]
        /\ UNCHANGED <<store, now>>

\* The start of a chat turn: resolve_mode, then build_context_for_turn.
BuildContext(failing) ==
    LET \* mode of a chat request: templates, custom keys, a blank and an unknown key.
        ChatModes == {"student", "job", "fitness", "work", " ", "nomode"}
        CtxMessages == { <<"x", " ", "q">> }
    IN  /\ BeforeTurn
        /\ \E user_id \in Users, mode \in ChatModes, user_message \in CtxMessages :
             LET mk == StripKey(mode)
                 bare == {r \in RowsFor(modes, user_id, mk) : r.cross_mode_sources = <<>>}
             IN  \E order \in IF bare # {} THEN Orders(OtherKeys(modes, user_id, mk))
                              ELSE {<<>>} :
                   LET mode_info == resolve_mode(modes, user_id, mode, order)
                       n == Len(mode_info.crossModeSources)
                   IN  \E env \in IF failing THEN FailEnvs(n) ELSE CtxEnvs(n) :
                         LET r == build_context_for_turn(store, user_id, mode_info,
                                                         user_message, env, now)
                         IN  call' = [op |-> "context", user_id |-> user_id,
                                      mode |-> mode, mode_config |-> mode_info,
                                      user_message |-> user_message, env |-> env,
                                      at |-> now, raised |-> r.raised,
                                      value |-> IF r.raised THEN EmptyDict ELSE r.value]
        /\ UNCHANGED <<store, modes, now>>

CreateAnyMode == CreateMode(TRUE)

BuildContextOk == BuildContext(FALSE)

SpecCtx == InitCtx /\ [][CreateAnyMode \/ BuildContextOk]_vars

(***************************************************************************)
(* Context assembly under failing requests: SpecFail.                      *)
(***************************************************************************)
CreateWorkMode == CreateMode(FALSE)

BuildContextFailing == BuildContext(TRUE)

SpecFail == InitFail /\ [][CreateWorkMode \/ BuildContextFailing]_vars

(***************************************************************************)
(* The write-back of a turn over stored summaries: SpecDedup.              *)
(***************************************************************************)
MaxDedupDocs == 2

\* 'plan my week for exams'
StoredPlan ==
    <<"p", "l", "a", "n", " ", "m", "y", " ", "w", "e", "e", "k", " ", "f",
      "o", "r", " ", "e", "x", "a", "m", "s">>

\* 'plan my week for exams now'
PlanNow == StoredPlan \o <<" ", "n", "o", "w">>

\* 'Your exam is soon', 'Exam tomorrow' and 'ok'
DedupResponses == { <<"E", "x", "a", "m", " ", "t", "o", "m", "o", "r", "r", "o", "w">>,
                    <<"Y", "o", "u", "r", " ", "e", "x", "a", "m", " ", "i", "s", " ", "s", "o", "o", "n">>, <<"o", "k">> }

InitDedup ==
    LET \* 'a.b c'
        DottedMessage == <<"a", ".", "b", " ", "c">>
        \* 'plan my week for exams now', 'Exa', 'plan my trip', ' ', 'a.b c'
        DedupMessages ==
            { PlanNow,
              <<"E", "x", "a">>,
              <<"p", "l", "a", "n", " ", "m", "y", " ", "t", "r", "i", "p">>,
              <<" ">>,
              DottedMessage }
        \* What the store can hold: summaries of earlier turns in student mode (one
        \* stored through the 'content' payload and carrying keys of its own), a fact
        \* memory, and a summary of job mode.
        DedupPool ==
            { [field |-> "content", text |-> SummaryText(StoredPlan), mode |-> "student",
               metadata |-> [mode |-> "student", source |-> "import", pinned |-> "yes"]],
              [field |-> "text", text |-> SummaryText(DottedMessage), mode |-> "student",
               metadata |-> [mode |-> "student", createdAt |-> Aware(0)]],
              [field |-> "text", text |-> FactText(<<"E", "x", "a", "m">>), mode |-> "student",
               metadata |-> [mode |-> "student", type |-> "fact"]],
              [field |-> "text", text |-> SummaryText(StoredPlan), mode |-> "job",
               metadata |-> [mode |-> "job", createdAt |-> Aware(0)]] }
        DedupStores ==
            UNION { { [i \in 1..n |->
                         NewDocument(i, c[i].field, c[i].text, c[i].metadata,
                                     Range(ContainerTags("u1", c[i].mode)))] :
                      c \in [1..n -> DedupPool] } : n \in 0..MaxDedupDocs }
    IN  /\ store \in DedupStores
        /\ modes = {}
        /\ now = 0
        /\ call \in { [op |-> "turn_input", user_id |-> "u1", role |-> "student",
                       user_message |-> m, llm_response |-> r] :
                      m \in DedupMessages, r \in DedupResponses }

\* check_duplicate_memory on the turn's message
CheckDuplicate ==
    /\ call.op = "turn_input"
    /\ \E outcome \in {"ok", "net"} :
         LET r == check_duplicate_memory(store, call.user_id, call.role,
                                         call.user_message, outcome, now)
         IN  call' = [op |-> "check_duplicate", user_id |-> call.user_id,
                      role |-> call.role, user_message |-> call.user_message,
                      outcome |-> outcome, searched |-> r.searched,
                      value |-> r.value]
    /\ UNCHANGED <<store, modes, now>>

\* The record of a write-back: its inputs, the store before it, its result.
WriteBackCall(input, role, search_outcome, put_outcome, before, r) ==
    [op |-> "write_back", user_id |-> input.user_id, role |-> role,
     user_message |-> input.user_message, llm_response |-> input.llm_response,
     search_outcome |-> search_outcome, put_outcome |-> put_outcome,
     raised |-> r.raised, error |-> r.error, value |-> r.value,
     searched |-> r.searched, found |-> r.found, puts |-> r.puts,
     creates |-> r.creates, facts |-> r.facts, before |-> before,
     after |-> r.docs]

\* The chat turn's write-back: resolve_mode, then write_back_memories with the
\* bundle's base_role and mode_config.
WriteBackTurn(input, mode_info, search_outcome, put_outcome) ==
    WriteBackCall(input, mode_info.modeKey, search_outcome, put_outcome, store,
        write_back_memories(store, input.user_id, mode_info.modeKey,
            input.user_message, input.llm_response,
            [base_role |-> mode_info.baseRole, mode_config |-> mode_info],
            search_outcome, put_outcome, now))

WriteBack ==
    /\ call.op = "turn_input"
    /\ \E search_outcome \in {"ok", "net"}, put_outcome \in {"ok", "h500", "net"} :
         call' = WriteBackTurn(call, resolve_mode(modes, call.user_id, call.role, <<>>),
                               search_outcome, put_outcome)
    /\ store' = call'.after
    /\ UNCHANGED <<modes, now>>

SpecDedup == InitDedup /\ [][CheckDuplicate \/ WriteBack]_vars

(***************************************************************************)
(* Properties of the store client.                                         *)
(***************************************************************************)
\* C1: a search or recent-list scoped to a mode returns only memories whose
\* metadata.mode is that mode, whatever the store answered and on whichever
\* endpoint the answer came from.
C1_ModeIsolation ==
    LET IsRead == call.op \in {"search", "recent"}
        ModeOf(mem) == Get(mem.metadata, "mode", None)
    IN  (IsRead /\ Truthy(call.role)) =>
            \A i \in DOMAIN call.value : ModeOf(call.value[i]) = call.role

\* A recent-list for "student" answered by the fallback endpoint with a "job"
\* document among the answer, and a non-empty result.
C1_Witness ==
    LET ModeOf(mem) == Get(mem.metadata, "mode", None)
        \* The answer of the store the result of a read was computed from.
        UsedAnswer ==
            IF call.outcomes[Len(call.outcomes)] = "ok"
            THEN call.answers[Len(call.answers)]
            ELSE <<>>
    IN  /\ call.op = "recent"
        /\ call.role = "student"
        /\ call.requests = <<"/documents/documents", "/memories">>
        /\ \E i \in DOMAIN UsedAnswer : ModeOf(UsedAnswer[i]) = "job"
        /\ call.value # <<>>

\* C2: expiry is a read-time filter: no returned memory has an expires_at that
\* denotes an instant before the call time, every answered memory that passes
\* the mode filter and expires after the call time is returned, and the read
\* leaves the store as it was.
C2_ExpiryReadFilter ==
    LET IsRead == call.op \in {"search", "recent"}
        ModeOf(mem) == Get(mem.metadata, "mode", None)
        \* The answer of the store the result of a read was computed from.
        UsedAnswer ==
            IF call.outcomes[Len(call.outcomes)] = "ok"
            THEN call.answers[Len(call.answers)]
            ELSE <<>>
        \* The instant an expires_at value denotes, when it denotes one.
        DenotesInstant(v) == v.kind \in {"aware", "naive"}
        ExpiresAtOf(mem) == Get(mem.metadata, "expires_at", IsoNone)
    IN  IsRead =>
            /\ \A i \in DOMAIN call.value :
                  LET e == ExpiresAtOf(call.value[i])
                  IN  ~(DenotesInstant(e) /\ e.t < call.at)
            /\ \A i \in DOMAIN UsedAnswer :
                  LET m == UsedAnswer[i]
                      e == ExpiresAtOf(m)
                  IN  ( /\ Truthy(call.role) => ModeOf(m) = call.role
                        /\ DenotesInstant(e) /\ e.t > call.at )
                      => \E j \in DOMAIN call.value : call.value[j].id = m.id
            /\ store = call.before

\* C4: a read never raises, and when every request it sent failed (network
\* error, non-2xx status, malformed body) it returns the empty list.
C4_ReadsDegradeToEmpty ==
    LET IsRead == call.op \in {"search", "recent"}
    IN  IsRead =>
            /\ ~call.raised
            /\ (\A i \in DOMAIN call.outcomes : call.outcomes[i] # "ok")
                  => call.value = <<>>

\* A recent-list whose primary and fallback requests both failed while the
\* store holds a document of the requested mode.
C4_Witness ==
    LET ModeOf(mem) == Get(mem.metadata, "mode", None)
    IN  /\ call.op = "recent"
        /\ Len(call.outcomes) = 2
        /\ call.outcomes[2] # "ok"
        /\ \E i \in DOMAIN store : ModeOf(store[i]) = call.role
        /\ call.value = <<>>
        /\ ~call.raised

\* C5: create_memory never raises, returns None when every request it sent
\* failed, and returns a document only when one request succeeded.
C5_WritesDegradeToNone ==
    call.op = "create" =>
        /\ ~call.raised
        /\ (\A i \in DOMAIN call.outcomes : call.outcomes[i] \in {"h400", "h500", "net"})
              => call.value = <<>>
        /\ call.value # <<>>
              => \E i \in DOMAIN call.outcomes : call.outcomes[i] = "ok"

\* All three requests of a create answered by an error status.
C5_Witness ==
    /\ call.op = "create"
    /\ call.outcomes = <<"h400", "h500", "h500">>
    /\ call.value = <<>>
    /\ ~call.raised

(***************************************************************************)
(* Properties of the re-ranker.                                            *)
(***************************************************************************)
\* C7: rerank_and_trim returns min(K, n) of the candidates, none twice, in
\* non-increasing order of score (distinct query tokens found in the text, plus
\* one for a createdAt within the last seven days); candidates of equal score
\* keep their input order, and no candidate left out outranks a returned one.
C7_StableTopK ==
    LET \* The instant an expires_at value denotes, when it denotes one.
        DenotesInstant(v) == v.kind \in {"aware", "naive"}
        \* The distinct whitespace-split, lower-cased tokens of a message: the maximal
        \* blank-free stretches of its lower-cased form.
        QueryTokens(message) ==
            LET m == Lower(message)
                token(i, j) ==
                    /\ i <= j
                    /\ \A k \in i..j : ~IsSpace(m[k])
                    /\ (i = 1 \/ IsSpace(m[i - 1]))
                    /\ (j = Len(m) \/ IsSpace(m[j + 1]))
            IN  {SubSeq(m, p[1], p[2]) :
                    p \in {q \in (DOMAIN m) \X (DOMAIN m) : token(q[1], q[2])}}
        \* createdAt denotes an instant within the seven days before `at`.
        WithinLastWeek(mem, at) ==
            LET c == Get(mem.metadata, "createdAt", IsoNone)
            IN  DenotesInstant(c) /\ c.t <= at /\ at - c.t < 7
        RankScore(mem, message, at) ==
            Cardinality({t \in QueryTokens(message) :
                            Contains(t, Lower(Get(mem, "text", <<>>)))})
                + (IF WithinLastWeek(mem, at) THEN 1 ELSE 0)
    IN  call.op = "rerank" =>
            LET c == call.search_results
                v == call.value
                sc(mem) == RankScore(mem, call.user_message, call.at)
            IN  /\ Len(v) = Min(call.max_items, Len(c))
                /\ \A i \in DOMAIN v : \E j \in DOMAIN c : v[i] = c[j]
                /\ \A i, j \in DOMAIN v : i # j => v[i].id # v[j].id
                /\ \A i, j \in DOMAIN v : i < j => sc(v[i]) >= sc(v[j])
                /\ \A i, j \in DOMAIN v :
                      (i < j /\ sc(v[i]) = sc(v[j])) => v[i].id < v[j].id
                /\ \A j \in DOMAIN c :
                      (\A i \in DOMAIN v : v[i].id # j)
                          => \A i \in DOMAIN v : sc(c[j]) <= sc(v[i])

\* Three candidates trimmed to two: the result holds two candidates of equal
\* score in their input order, the first of them raised over an earlier
\* candidate by the recency boost.
C7_Witness ==
    LET \* The instant an expires_at value denotes, when it denotes one.
        DenotesInstant(v) == v.kind \in {"aware", "naive"}
        \* The distinct whitespace-split, lower-cased tokens of a message: the maximal
        \* blank-free stretches of its lower-cased form.
        QueryTokens(message) ==
            LET m == Lower(message)
                token(i, j) ==
                    /\ i <= j
                    /\ \A k \in i..j : ~IsSpace(m[k])
                    /\ (i = 1 \/ IsSpace(m[i - 1]))
                    /\ (j = Len(m) \/ IsSpace(m[j + 1]))
            IN  {SubSeq(m, p[1], p[2]) :
                    p \in {q \in (DOMAIN m) \X (DOMAIN m) : token(q[1], q[2])}}
        \* createdAt denotes an instant within the seven days before `at`.
        WithinLastWeek(mem, at) ==
            LET c == Get(mem.metadata, "createdAt", IsoNone)
            IN  DenotesInstant(c) /\ c.t <= at /\ at - c.t < 7
        RankScore(mem, message, at) ==
            Cardinality({t \in QueryTokens(message) :
                            Contains(t, Lower(Get(mem, "text", <<>>)))})
                + (IF WithinLastWeek(mem, at) THEN 1 ELSE 0)
    IN  /\ call.op = "rerank"
        /\ Len(call.search_results) = 3
        /\ Len(call.value) = 2
        /\ RankScore(call.value[1], call.user_message, call.at) = 2
        /\ RankScore(call.value[2], call.user_message, call.at) = 2
        /\ call.value[1].id = 2
        /\ call.value[2].id = 3
        /\ WithinLastWeek(call.value[1], call.at)
        /\ ~WithinLastWeek(call.value[2], call.at)

(***************************************************************************)
(* Properties of the context bundle.                                       *)
(***************************************************************************)
\* C3: in a bundle, recent and long-term memories all carry the active mode
\* key, cross-role memories all carry one of the mode's cross sources, and
\* there are no cross-role memories when the mode has no cross sources.
C3_ContextIsolation ==
    LET IsBundle == call.op = "context" /\ ~call.raised
        ModeOf(mem) == Get(mem.metadata, "mode", None)
        ModesOf(memories) == {ModeOf(memories[i]) : i \in DOMAIN memories}
    IN  IsBundle =>
            LET b == call.value
                sources == Range(call.mode_config.crossModeSources)
            IN  /\ ModesOf(b.recent_memories) \subseteq {b.active_mode}
                /\ ModesOf(b.long_term_memories) \subseteq {b.active_mode}
                /\ ModesOf(b.cross_role_memories) \subseteq sources
                /\ (sources = {} => b.cross_role_memories = <<>>)

\* C8: a bundle holds at most 5 recent, 5 long-term and 3 cross-role memories.
C8_BundleBounded ==
    LET IsBundle == call.op = "context" /\ ~call.raised
    IN  IsBundle =>
            /\ Len(call.value.recent_memories) <= 5
            /\ Len(call.value.long_term_memories) <= 5
            /\ Len(call.value.cross_role_memories) <= 3

\* A turn in a custom mode with four cross sources, against a store that
\* ignores the request limits and holds more documents of every mode than any
\* budget: all three slices are filled to their budget.
C8_Witness ==
    LET IsBundle == call.op = "context" /\ ~call.raised
        ModeOf(mem) == Get(mem.metadata, "mode", None)
    IN  /\ IsBundle
        /\ ~call.env.honoured
        /\ Len(call.mode_config.crossModeSources) = 4
        /\ Cardinality({i \in DOMAIN store : ModeOf(store[i]) = call.value.active_mode}) > 5
        /\ Len(call.value.recent_memories) = 5
        /\ Len(call.value.long_term_memories) = 5
        /\ Len(call.value.cross_role_memories) = 3

\* The outcomes of env with the cross sources in `failed` left out of the loop.
RECURSIVE Surviving(_, _)
Surviving(sources, outcomes) ==
    IF sources = <<>> THEN <<>>
    ELSE (IF outcomes[1] = "ok" THEN <<sources[1]>> ELSE <<>>)
             \o Surviving(Tail(sources), Tail(outcomes))

\* C6: whatever subset of the sub-fetches fails, a bundle is returned; the
\* slices of a failed source are empty, and every other slice is what the
\* turn yields when nothing fails (the cross-role slice being assembled from
\* the sources whose search succeeded).
C6_FailureTolerantAssembly ==
    LET \* The store's side of one turn (env): what it holds as profile, the outcome
        \* of each request, and whether it honours the `limit` of a request.
        \*   env.profile_stored, env.profile, env.recent (<<o1, o2>>), env.search,
        \*   env.cross (one outcome per cross source), env.honoured
        AllOk(env) ==
            [profile_stored |-> env.profile_stored, profile |-> "ok",
             recent |-> <<"ok", "ok">>, search |-> "ok",
             cross |-> [i \in DOMAIN env.cross |-> "ok"], honoured |-> env.honoured]
        SearchFailed(env) == env.search # "ok"
        RecentFailed(env) ==
            env.recent[1] # "ok" /\ ~(IsHTTPError(env.recent[1]) /\ env.recent[2] = "ok")
        \* The sub-fetches of a turn that failed.
        ProfileFailed(env) == env.profile # "ok" \/ env.profile_stored # "good"
    IN  call.op = "context" =>
            LET env == call.env
                b == call.value
                sources == call.mode_config.crossModeSources
                ok == build_context_for_turn(store, call.user_id, call.mode_config,
                                             call.user_message, AllOk(env), call.at).value
                surviving == Surviving(sources, env.cross)
                okCross == build_context_for_turn(
                               store, call.user_id,
                               [call.mode_config EXCEPT !.crossModeSources = surviving],
                               call.user_message, AllOk(env), call.at).value
            IN  /\ ~call.raised
                /\ b.active_mode = ok.active_mode
                /\ IF ProfileFailed(env)
                   THEN b.static_profile = EmptyDict /\ b.cross_role_static = EmptyDict
                   ELSE /\ b.static_profile = ok.static_profile
                        /\ b.cross_role_static = ok.cross_role_static
                /\ b.recent_memories = IF RecentFailed(env) THEN <<>> ELSE ok.recent_memories
                /\ b.long_term_memories =
                      IF SearchFailed(env) THEN <<>> ELSE ok.long_term_memories
                /\ b.cross_role_memories = okCross.cross_role_memories

\* A turn in a custom mode in which the profile fetch, the recent list (primary
\* and fallback) and one of several cross searches fail while the long-term
\* search succeeds: the bundle keeps long-term and cross-role memories.
C6_Witness ==
    /\ call.op = "context"
    /\ ~call.raised
    /\ call.env.profile = "net"
    /\ call.env.recent = <<"h500", "malformed">>
    /\ call.env.search = "ok"
    /\ \E i, j \in DOMAIN call.env.cross :
          call.env.cross[i] = "net" /\ call.env.cross[j] = "ok"
    /\ call.value.static_profile = EmptyDict
    /\ call.value.recent_memories = <<>>
    /\ call.value.long_term_memories # <<>>
    /\ call.value.cross_role_memories # <<>>

(***************************************************************************)
(* Properties of the write-back.                                           *)
(***************************************************************************)
\* C9: for a new message with at least one word, check_duplicate_memory
\* returns a memory exactly when some candidate of the mode-scoped search
\* passes the rule (it holds 'user asked:' and its extracted stored message
\* shares more than 70% of the new message's distinct words, or one of the
\* two lower-cased, stripped strings is a substring of the other); the memory
\* returned is the first such candidate in search order, and None is returned
\* otherwise.  With 'user asked: plan my week for exams' among the candidates,
\* 'plan my week for exams now' is a duplicate.
C9_DuplicateDecisionRule ==
    LET \* The distinct whitespace-split, lower-cased tokens of a message: the maximal
        \* blank-free stretches of its lower-cased form.
        QueryTokens(message) ==
            LET m == Lower(message)
                token(i, j) ==
                    /\ i <= j
                    /\ \A k \in i..j : ~IsSpace(m[k])
                    /\ (i = 1 \/ IsSpace(m[i - 1]))
                    /\ (j = Len(m) \/ IsSpace(m[j + 1]))
            IN  {SubSeq(m, p[1], p[2]) :
                    p \in {q \in (DOMAIN m) \X (DOMAIN m) : token(q[1], q[2])}}
        \* The rule on one candidate: its text holds 'user asked:' and the extracted
        \* stored message shares more than 70% of the new message's distinct words,
        \* or one of the two lower-cased strings is a substring of the other.
        DuplicateRule(mem, message) ==
            LET new == Strip(Lower(message))
                stored == StoredMessage(MemText(mem))
                newWords == QueryTokens(message)
                storedWords == QueryTokens(stored)
            IN  /\ Contains(UserAskedMark, MemText(mem))
                /\ \/ 10 * Cardinality(newWords \cap storedWords) > 7 * Cardinality(newWords)
                   \/ Contains(stored, new)
                   \/ Contains(new, stored)
        Hits(searched, message) ==
            {i \in DOMAIN searched : DuplicateRule(searched[i], message)}
    IN  (call.op = "check_duplicate" /\ QueryTokens(call.user_message) # {}) =>
            LET hits == Hits(call.searched, call.user_message)
            IN  /\ (call.value # <<>>) <=> (hits # {})
                /\ hits # {} =>
                     call.value = <<call.searched[CHOOSE i \in hits :
                                                     \A j \in hits : i <= j]>>
                /\ ( /\ call.user_message = PlanNow
                     /\ \E i \in DOMAIN call.searched :
                           MemText(call.searched[i]) = Lower(SummaryText(StoredPlan)) )
                   => call.value # <<>>

\* The search returns a fact memory and then the summary of 'plan my week for
\* exams'; for 'plan my week for exams now' the second candidate is returned.
C9_Witness ==
    /\ call.op = "check_duplicate"
    /\ call.user_message = PlanNow
    /\ Len(call.searched) = 2
    /\ ~Contains(UserAskedMark, MemText(call.searched[1]))
    /\ MemText(call.searched[2]) = Lower(SummaryText(StoredPlan))
    /\ call.value = <<call.searched[2]>>

\* C10: when a duplicate is detected, write_back_memories issues an update for
\* the duplicate's own id whose metadata keeps every old key and takes the new
\* value on shared keys; when the update succeeds, the returned id list
\* contains the duplicate's id and no summary memory is created.
C10_DuplicateUpdatedInPlace ==
    (call.op = "write_back" /\ call.found # <<>>) =>
        LET old == call.found[1].metadata
        IN  /\ Len(call.puts) = 1
            /\ call.puts[1].id = call.found[1].id
            /\ LET written == call.puts[1].metadata
               IN  /\ DOMAIN old \subseteq DOMAIN written
                   /\ written.mode = call.role
                   /\ written.source = "chat"
                   /\ written.userId = call.user_id
                   /\ written.createdAt = Aware(now)
                   /\ \A k \in DOMAIN old \ {"mode", "base_role", "source",
                                             "createdAt", "userId", "durability",
                                             "expires_at", "type", "event_date"} :
                         written[k] = old[k]
            /\ call.put_outcome = "ok" =>
                 /\ ~call.raised
                 /\ call.found[1].id \in Range(call.value)
                 /\ "summary" \notin Range(call.creates)

(***************************************************************************)
(* Chat turns run one after another on the same message: SpecTurns.        *)
(***************************************************************************)
MaxTurns == 3

InitTurns ==
    LET \* 'plan my week for exams', 'plan my week for exams now', 'Exa'
        TurnMessages == { StoredPlan, PlanNow, <<"E", "x", "a">> }
        \* The store before the first turn: nothing, or memories that are no summary
        \* of the active mode (a fact, a summary of another user's session).
        TurnPool ==
            { [field |-> "text", text |-> FactText(<<"E", "x", "a", "m">>), user |-> "u1",
               mode |-> "student", metadata |-> [mode |-> "student", type |-> "fact"]],
              [field |-> "text", text |-> SummaryText(StoredPlan), user |-> "u2",
               mode |-> "student",
               metadata |-> [mode |-> "student", createdAt |-> Aware(0)]] }
        TurnStores ==
            {<<>>} \cup { <<NewDocument(1, c.field, c.text, c.metadata,
                                        Range(ContainerTags(c.user, c.mode)))>> :
                          c \in TurnPool }
    IN  /\ store \in TurnStores
        /\ modes = {}
        /\ now = 0
        /\ call \in { [op |-> "session", user_id |-> "u1", role |-> r,
                       user_message |-> m, turns |-> 0, healthy |-> TRUE,
                       first |-> <<>>, raised |-> FALSE, error |-> None] :
                      m \in TurnMessages, r \in {"student", "job"} }

\* One chat turn: resolve_mode, then write_back_memories on the reply.
ChatTurn ==
    LET \* The session after one more turn whose write-back is wb.
        AfterTurn(session, wb) ==
            [op |-> "chat_turn", user_id |-> session.user_id, role |-> session.role,
             user_message |-> session.user_message, turns |-> session.turns + 1,
             healthy |-> session.healthy /\ wb.search_outcome = "ok"
                                         /\ wb.put_outcome = "ok",
             first |-> IF session.turns = 0 THEN wb.value ELSE session.first,
             raised |-> wb.raised, error |-> wb.error, after |-> wb.after]
    IN  /\ call.op \in {"session", "chat_turn"}
        /\ call.turns < MaxTurns
        /\ \E llm_response \in DedupResponses,
              search_outcome \in {"ok", "net"}, put_outcome \in {"ok", "h500"} :
             call' = AfterTurn(call,
                        WriteBackTurn([user_id |-> call.user_id,
                                       user_message |-> call.user_message,
                                       llm_response |-> llm_response],
                                      resolve_mode(modes, call.user_id, call.role, <<>>),
                                      search_outcome, put_outcome))
        /\ store' = call'.after
        /\ UNCHANGED <<modes, now>>

\* Time passes between turns.
TurnTick ==
    /\ now < MaxTime
    /\ now' = now + 1
    /\ UNCHANGED <<store, modes, call>>

SpecTurns == InitTurns /\ [][ChatTurn \/ TurnTick]_vars

\* C11: after N >= 1 turns run one after another for the same user, mode and
\* message, every request of which succeeded, the store holds exactly one
\* summary memory of that message, and its id is the one the first turn
\* returned.
C11_DedupBoundsGrowth ==
    LET \* The summaries of a message held for a user and mode.
        SummariesOf(docs, user_id, role, user_message) ==
            {i \in DOMAIN docs :
                /\ Get(docs[i], "text", Get(docs[i], "content", <<>>)) = SummaryText(user_message)
                /\ ContainerTags(user_id, role)[Len(ContainerTags(user_id, role))] \in docs[i].tags
                /\ Get(docs[i].metadata, "mode", None) = role}
    IN  (call.op = "chat_turn" /\ call.healthy) =>
            LET held == SummariesOf(store, call.user_id, call.role, call.user_message)
            IN  /\ Cardinality(held) = 1
                /\ \A i \in held : call.first # <<>> /\ store[i].id = call.first[1]

\* C12: the metadata write_back_memories builds for a fact memory has type
\* 'fact' and no event_date, whatever classify_memory returned for the fact
\* text; a fact memory that reached the store carries the same.
C12_FactNeverEvent ==
    call.op = "write_back" =>
        /\ \A i \in DOMAIN call.facts :
              /\ call.facts[i].type = "fact"
              /\ "event_date" \notin DOMAIN call.facts[i]
        /\ \A i \in DOMAIN call.after :
              (/\ i \notin DOMAIN call.before
               /\ Take(Get(call.after[i], "text", <<>>), Len(ImportantPrefix))
                     = ImportantPrefix)
              => /\ call.after[i].metadata.type = "fact"
                 /\ "event_date" \notin DOMAIN call.after[i].metadata

\* The reply 'Exam tomorrow' classifies as an event for base role student,
\* and the fact metadata built from it is a fact without event_date.
C12_Witness ==
    /\ call.op = "write_back"
    /\ call.facts # <<>>
    /\ Get(classify_memory("student", FactText(call.llm_response),
                           EmptyDict, CalendarOf(now)).value,
           "type", None) = "event"
    /\ call.facts[1].type = "fact"
    /\ "event_date" \notin DOMAIN call.facts[1]

\* C13: every create and every update that write_back_memories issues carries
\* the mode's defaultTags as extra container tags besides the userId and
\* userId-mode tags, and the store client accepts them: no call fails on the
\* extra tags, every update payload holds them, every memory created holds
\* them.
C13_DefaultTagsForwarded ==
    LET \* f"tag:{t}" for the defaultTags of a mode configuration
        ExtraTagsOf(mode_config) ==
            {<<"tag", mode_config.defaultTags[i]>> : i \in DOMAIN mode_config.defaultTags}
    IN  call.op = "write_back" =>
            LET extra == ExtraTagsOf(resolve_mode(modes, call.user_id, call.role, <<>>))
                wanted == Range(ContainerTags(call.user_id, call.role)) \cup extra
            IN  /\ call.error # "TypeError"
                /\ \A i \in DOMAIN call.puts :
                      /\ "containerTags" \in DOMAIN call.puts[i]
                      /\ wanted \subseteq Range(call.puts[i].containerTags)
                /\ \A i \in DOMAIN call.after :
                      i \notin DOMAIN call.before => wanted \subseteq call.after[i].tags

(***************************************************************************)
(* The modes of several users: SpecModes.                                  *)
(***************************************************************************)
ModeUsers == {"u1", "u2"}

InitModes ==
    LET \* Rows written before the columns default_tags and cross_mode_sources
        \* existed: the migration adds the columns, the rows hold NULL in them.
        LegacyRows ==
            { [user_id |-> "u1", key |-> "hobby", name |-> "Hobby", base_role |-> None,
               default_tags |-> <<>>, cross_mode_sources |-> <<>>],
              [user_id |-> "u2", key |-> "secret", name |-> "Secret", base_role |-> None,
               default_tags |-> <<>>, cross_mode_sources |-> <<>>] }
    IN  /\ store = <<>>
        /\ modes \in SUBSET LegacyRows
        /\ now = 0
        /\ call = NoCall

\* delete_mode: core keys are refused, a custom row is removed, any other key
\* is answered with success.
delete_mode(rows, user_id, mode_key) ==
    IF mode_key \in {"student", "parent", "job", "default"}
    THEN [status |-> 400, rows |-> rows]
    ELSE [status |-> 200, rows |-> rows \ RowsFor(rows, user_id, mode_key)]

BeforeResolve == call.op # "resolve_mode"

\* POST /api/modes of one of the users
CreateUserMode ==
    /\ BeforeResolve
    /\ \E user_id \in ModeUsers, in \in WorkModeInputs :
         LET key == StripKey(IF Truthy(in.key) THEN in.key ELSE slugify_mode_key(in.name))
             fresh == Truthy(StripKey(in.name)) /\ RowsFor(modes, user_id, key) = {}
         IN  \E order \in IF fresh THEN Orders(OtherKeys(modes, user_id, key)) ELSE {<<>>} :
               /\ modes' = create_mode(modes, user_id, in.name, in.key, None,
                                       in.defaultTags, order).rows
               /\ call' = [op |-> "create_mode", user_id |-> user_id,
                           name |-> in.name, key_given |-> in.key]
    /\ UNCHANGED <<store, now>>

\* DELETE /api/modes/<mode_key> of one of the users
DeleteMode ==
    /\ BeforeResolve
    /\ \E user_id \in ModeUsers, mode_key \in {"student", "hobby", "work"} :
         /\ modes' = delete_mode(modes, user_id, mode_key).rows
         /\ call' = [op |-> "delete_mode", user_id |-> user_id, mode_key |-> mode_key,
                     status |-> delete_mode(modes, user_id, mode_key).status]
    /\ UNCHANGED <<store, now>>

\* resolve_mode for a user and the mode key of a request
ResolveMode ==
    LET \* Mode keys a request can carry: missing, empty, blank, template keys,
        \* custom keys, an unknown key.
        ResolveKeys == {None, "", " ", "student", "fitness", "hobby", "work", "nomode"}
    IN  /\ BeforeResolve
        /\ \E user_id \in ModeUsers, mode_key \in ResolveKeys :
             LET mk == StripKey(IF Truthy(mode_key) THEN mode_key ELSE "student")
                 bare == {r \in RowsFor(modes, user_id, mk) : r.cross_mode_sources = <<>>}
             IN  \E order \in IF bare # {} THEN Orders(OtherKeys(modes, user_id, mk))
                              ELSE {<<>>} :
                   call' = [op |-> "resolve_mode", user_id |-> user_id,
                            mode_key |-> mode_key,
                            value |-> resolve_mode(modes, user_id, mode_key, order)]
        /\ UNCHANGED <<store, modes, now>>

SpecModes == InitModes /\ [][CreateUserMode \/ DeleteMode \/ ResolveMode]_vars

\* C14: for every user and every mode key that is missing, empty or made only
\* of whitespace, resolve_mode returns the configuration (modeKey, baseRole,
\* label, defaultTags, crossModeSources, isCustom) it returns for 'student'.
C14_DefaultMode ==
    (call.op = "resolve_mode" /\ call.mode_key \in {None, "", " "}) =>
        call.value = resolve_mode(modes, call.user_id, "student", <<>>)

InitClassify ==
    LET roles == {"student", "parent", "job", "fitness"}
        texts ==
            {<<"M", "i", "d", "t", "e", "r", "m", " ", "e", "x", "a", "m", " ", "o", "n", " ", "2", "0", "2", "6", "-", "0", "3", "-", "0", "5">>,
             <<"e", "x", "a", "m", " ", "t", "o", "m", "o", "r", "r", "o", "w">>,
             <<"t", "e", "s", "t", " ", "n", "e", "x", "t", " ", "w", "e", "e", "k">>,
             <<"e", "x", "a", "m", " ", "n", "e", "x", "t", " ", "m", "o", "n", "t", "h">>,
             <<"F", "i", "n", "a", "l", " ", "e", "x", "a", "m", " ", "M", "a", "r", "c", "h", " ", "5">>,
             <<"e", "x", "a", "m", " ", "o", "n", " ", "5", "t", "h", " ", "J", "a", "n", "u", "a", "r", "y">>,
             <<"p", "a", "r", "t", "y", " ", "F", "e", "b", "r", "u", "a", "r", "y", " ", "3", "0">>,
             <<"c", "a", "l", "l", " ", "m", "o", "m">>,
             <<"h", "e", "l", "l", "o", " ", "t", "h", "e", "r", "e">>,
             <<"h", "o", "m", "e", "w", "o", "r", "k", " ", "d", "u", "e">>,
             <<"b", "u", "y", " ", "m", "i", "l", "k">>,
             <<"e", "x", "a", "m", " ", "F", "e", "b", " ", "2", "9">>,
             <<"i", "n", "t", "e", "r", "v", "i", "e", "w", " ", "o", "n", " ", "M", "a", "y", " ", "5", ",", " ", "2", "0", "2", "7">>,
             <<"b", "i", "r", "t", "h", "d", "a", "y", " ", "p", "a", "r", "t", "y", " ", "F", "e", "b", " ", "2">>,
             <<"r", "e", "s", "u", "m", "e", " ", "t", "i", "p", "s">>,
             <<>>}
        clocks ==
            {[year |-> 2026, month |-> 1, day |-> 31, hour |-> ClockHour],
             [year |-> 2026, month |-> 3, day |-> 5, hour |-> EventHour],
             [year |-> 2026, month |-> 3, day |-> 5, hour |-> ClockHour],
             [year |-> 2026, month |-> 12, day |-> 31, hour |-> ClockHour],
             [year |-> 2028, month |-> 3, day |-> 10, hour |-> ClockHour],
             [year |-> 2026, month |-> 11, day |-> 1, hour |-> ClockHour]}
        \* No context, an exam date '2026-04-01', or one that does not parse.
        contexts ==
            { EmptyDict,
              [exam_date |-> Naive(DayNumber(2026, 4, 1))],
              [exam_date |-> [kind |-> "invalid", t |-> 0]] }
    IN  /\ store = <<>>
        /\ modes = {}
        /\ \E clock \in clocks, role \in roles, content \in texts,
              context \in contexts :
             /\ now = DayNumber(clock.year, clock.month, clock.day)
             /\ call = [op |-> "input", role |-> role, content |-> content,
                        context |-> context, clock |-> clock]

\* One call of classify_memory(role, content, context); `parsed` is what its
\* call of _try_parse_event_date(now, content) gave.
Classify ==
    /\ call.op = "input"
    /\ call' = [op |-> "classify_memory", role |-> call.role,
                content |-> call.content, context |-> call.context,
                clock |-> call.clock,
                parsed |-> TryParseEventDate(call.clock, call.content),
                result |-> classify_memory(call.role, call.content, call.context,
                                           call.clock)]
    /\ UNCHANGED <<store, modes, now>>

SpecClassify == InitClassify /\ [][Classify]_vars

\* C16: when no role-specific keyword rule matches the text and the parser
\* found no date in it (it returned None), classify_memory returns exactly
\* durability 'medium' and expires_at 90 days after now: no type and no
\* event_date.
C16_DefaultClassification ==
    LET role == call.role
        content_lower == Lower(call.content)
        \* one of the role-specific keyword rules applies, the parent event
        \* rule needing a date
        rule == \/ role = "parent" /\ AnyIn(ParentEphemeralKeywords, content_lower)
                \/ role = "student" /\ AnyIn(StudentExamKeywords, content_lower)
                \/ role = "student" /\ AnyIn(StudentEphemeralKeywords, content_lower)
                \/ role = "job" /\ AnyIn(JobLongKeywords, content_lower)
                \/ role = "job" /\ AnyIn(JobMediumKeywords, content_lower)
    IN  (/\ call.op = "classify_memory"
         /\ call.parsed = Returns(<<>>)
         /\ ~rule)
        => call.result = Returns([durability |-> "medium",
                                  expires_at |-> Aware(now + DefaultDays)])

\* 'call mom' holds the event keyword 'call' and no date: the default
\* classification for a student, 90 days from the last of January.
C16_Witness ==
    /\ call.op = "classify_memory"
    /\ call.role = "student"
    /\ call.content = <<"c", "a", "l", "l", " ", "m", "o", "m">>
    /\ call.clock.month = 1
    /\ call.parsed = Returns(<<>>)
    /\ call.result.value.durability = "medium"
    /\ call.result.value.expires_at = Aware(30 + DefaultDays)
    /\ DOMAIN call.result.value = {"durability", "expires_at"}

\* C17: for base role 'student', a text with an exam keyword and a date the
\* parser returns is classified type 'event', durability 'medium', with the
\* parsed date at 09:00 UTC as event_date.
C17_StudentExamEvent ==
    (/\ call.op = "classify_memory"
     /\ call.role = "student"
     /\ AnyIn(StudentExamKeywords, Lower(call.content))
     /\ call.parsed.raised = ""
     /\ call.parsed.value # <<>>)
    => /\ call.result.raised = ""
       /\ Get(call.result.value, "type", None) = "event"
       /\ call.result.value.durability = "medium"
       /\ Get(call.result.value, "event_date", IsoNone) = call.parsed.value[1]
       /\ call.parsed.value[1].hour = EventHour

\* C18: classify_memory returns a classification, it never raises, for every
\* role, text and clock reading.
C18_ClassifyNeverRaises ==
    call.op = "classify_memory" => call.result.raised = ""

(***************************************************************************)
(* extract_entities                                                        *)
(***************************************************************************)
SubjectMin == 2
SubjectMax == 40
GapMax == 10

\* The match at position i of one of the four patterns of extract_entities:
\* [end, groups], end 0 for no match.
\*   course   \b([A-Z]{2,}\s?\d{3,})\b
\*   exam     \b(midterm|final|exam|test)\b[^a-zA-Z0-9]{0,10}(?:for|in)?\s*([A-Za-z][A-Za-z ]{2,40})
\*            after the gap of non-alphanumerics the link word is taken when
\*            a subject follows it, else the subject starts where the gap ends
\*   company  (?:applied to|interview at|company|at)\s+([A-Z][a-zA-Z]+(?:\s+[A-Z][a-zA-Z]+)?)
\*   kid      (?:kid|child|son|daughter)\s+([A-Z][a-z]+)
PatternAt(pattern, s, i) ==
    LET \* The literal of the alternation ws (a sequence, in order) that stands at
        \* position i of s: <<literal>>, or <<>>.
        AlternativeAt(i0, ws) ==
            LET at(w) == i0 + Len(w) - 1 <= Len(s) /\ SubSeq(s, i0, i0 + Len(w) - 1) = w
            IN  IF \E n \in DOMAIN ws : at(ws[n])
                THEN <<ws[CHOOSE n \in DOMAIN ws :
                            at(ws[n]) /\ \A k \in 1..(n - 1) : ~at(ws[k])]>>
                ELSE <<>>
        none == [end |-> 0, groups |-> <<>>]
        upper == Range(UpperChars)
        \* course
        U == RunIn(s, i, upper)
        sp == IF i + U \in DOMAIN s /\ IsSpace(s[i + U]) THEN 1 ELSE 0
        D == RunIn(s, i + U + sp, Digits)
        \* exam
        w == AlternativeAt(i, <<<<"m", "i", "d", "t", "e", "r", "m">>, <<"f", "i", "n", "a", "l">>, <<"e", "x", "a", "m">>, <<"t", "e", "s", "t">>>>)
        a == i + Len(w[1])
        gap == CHOOSE k \in 0..(Len(s) + 1) :
                  /\ \A j \in a..(a + k - 1) : j \in DOMAIN s /\ s[j] \notin Letters \cup Digits
                  /\ (a + k \in DOMAIN s) => s[a + k] \in Letters \cup Digits
        e == a + gap
        link == AlternativeAt(e, <<<<"f", "o", "r">>, <<"i", "n">>>>)
        linked == e + Len(link[1]) + SpacesAt(s, e + Len(link[1]))
        subject(g) == /\ g \in DOMAIN s
                      /\ s[g] \in Letters
                      /\ RunIn(s, g + 1, Letters \cup {" "}) >= SubjectMin
        subjectEnd(g) == g + 1 + Min(SubjectMax, RunIn(s, g + 1, Letters \cup {" "}))
        \* company and kid
        lead == AlternativeAt(i, IF pattern = "company"
                                    THEN <<<<"a", "p", "p", "l", "i", "e", "d", " ", "t", "o">>,
                                          <<"i", "n", "t", "e", "r", "v", "i", "e", "w", " ", "a", "t">>,
                                          <<"c", "o", "m", "p", "a", "n", "y">>,
                                          <<"a", "t">>>>
                                    ELSE <<<<"k", "i", "d">>,
                                          <<"c", "h", "i", "l", "d">>,
                                          <<"s", "o", "n">>,
                                          <<"d", "a", "u", "g", "h", "t", "e", "r">>>>)
        g == i + Len(lead[1]) + SpacesAt(s, i + Len(lead[1]))
        f == g + 1 + RunIn(s, g + 1, IF pattern = "company" THEN Letters
                                     ELSE Range(LowerChars))
        h == f + SpacesAt(s, f)
        second == /\ pattern = "company"
                  /\ h > f
                  /\ h \in DOMAIN s /\ s[h] \in upper
                  /\ RunIn(s, h + 1, Letters) >= 1
        end == IF second THEN h + 1 + RunIn(s, h + 1, Letters) ELSE f
    IN  IF pattern = "course"
        THEN (IF Boundary(s, i) /\ U >= 2 /\ D >= 3 /\ Boundary(s, i + U + sp + D)
              THEN [end |-> i + U + sp + D,
                    groups |-> <<SubSeq(s, i, i + U + sp + D - 1)>>]
              ELSE none)
        ELSE IF pattern = "exam"
        THEN (IF w = <<>> \/ ~Boundary(s, i) \/ ~Boundary(s, a) THEN none
              ELSE IF gap <= GapMax /\ link # <<>> /\ subject(linked)
              THEN [end |-> subjectEnd(linked),
                    groups |-> <<w[1], SubSeq(s, linked, subjectEnd(linked) - 1)>>]
              ELSE IF (\A j \in (a + GapMax)..(e - 1) : IsSpace(s[j])) /\ subject(e)
              THEN [end |-> subjectEnd(e),
                    groups |-> <<w[1], SubSeq(s, e, subjectEnd(e) - 1)>>]
              ELSE none)
        ELSE (IF /\ lead # <<>>
                 /\ g > i + Len(lead[1])
                 /\ g \in DOMAIN s /\ s[g] \in upper
                 /\ f > g + 1
              THEN [end |-> end, groups |-> <<SubSeq(s, g, end - 1)>>]
              ELSE none)

\* re.findall(pattern, s) from position i: the groups of the matches, left
\* to right and not overlapping.
RECURSIVE FindAll(_, _, _)
FindAll(pattern, s, i) ==
    LET from(m) == IF m.end # 0
                   THEN <<m.groups>> \o FindAll(pattern, s, m.end)
                   ELSE FindAll(pattern, s, i + 1)
    IN  IF i > Len(s) THEN <<>> ELSE from(PatternAt(pattern, s, i))

extract_entities(text, role) ==
    LET \* s.replace(' ', r) for r of at most one character
        ReplaceSpaces(s, r) ==
            LET keep == {i \in DOMAIN s : s[i] # " " \/ r # <<>>}
                nth(n) == CHOOSE i \in keep : Cardinality({j \in keep : j < i}) = n - 1
            IN  [n \in 1..Cardinality(keep) |-> IF s[nth(n)] = " " THEN r[1] ELSE s[nth(n)]]
        \* s.title()
        Title(s) ==
            LET upper(c) == IF \E i \in DOMAIN LowerChars : LowerChars[i] = c
                            THEN UpperChars[CHOOSE i \in DOMAIN LowerChars : LowerChars[i] = c]
                            ELSE c
            IN  [i \in DOMAIN s |->
                    IF i = 1 \/ s[i - 1] \notin Letters THEN upper(s[i]) ELSE LowerChar(s[i])]
        text_lower == Lower(text)
        entity(id, label, type, relation) ==
            [id |-> id, label |-> label, type |-> type, relation |-> relation]
        course(found) ==
            [n \in DOMAIN found |->
                entity(<<"c", "o", "u", "r", "s", "e", ":">> \o ReplaceSpaces(found[n][1], <<>>),
                       found[n][1], "course", "studying")]
        \* subject_raw.strip().rstrip('.').rstrip(',') and split('  ')[0].strip()
        subject(raw) == Strip(SplitFirst(Strip(raw), <<" ", " ">>))
        topic_keywords ==
            <<<<"m", "a", "c", "h", "i", "n", "e", " ", "l", "e", "a", "r", "n", "i", "n", "g">>,
              <<"a", "p", "p", "l", "i", "e", "d", " ", "m", "a", "c", "h", "i", "n", "e", " ", "l", "e", "a", "r", "n", "i", "n", "g">>,
              <<"n", "e", "u", "r", "a", "l", " ", "n", "e", "t", "w", "o", "r", "k", "s">>,
              <<"d", "e", "e", "p", " ", "l", "e", "a", "r", "n", "i", "n", "g">>,
              <<"l", "i", "n", "e", "a", "r", " ", "r", "e", "g", "r", "e", "s", "s", "i", "o", "n">>,
              <<"l", "o", "g", "i", "s", "t", "i", "c", " ", "r", "e", "g", "r", "e", "s", "s", "i", "o", "n">>,
              <<"r", "a", "n", "d", "o", "m", " ", "f", "o", "r", "e", "s", "t">>,
              <<"d", "e", "c", "i", "s", "i", "o", "n", " ", "t", "r", "e", "e", "s">>,
              <<"s", "v", "m">>,
              <<"k", "-", "m", "e", "a", "n", "s">>,
              <<"p", "c", "a">>,
              <<"g", "r", "a", "d", "i", "e", "n", "t", " ", "d", "e", "s", "c", "e", "n", "t">>,
              <<"b", "a", "c", "k", "p", "r", "o", "p", "a", "g", "a", "t", "i", "o", "n">>,
              <<"c", "n", "n">>,
              <<"r", "n", "n">>,
              <<"t", "r", "a", "n", "s", "f", "o", "r", "m", "e", "r", "s">>>>
        has(kw) == Contains(kw, text_lower)
        exam(found) ==
            [n \in DOMAIN found |->
                entity(<<"e", "x", "a", "m", ":">>
                          \o ReplaceSpaces(Lower(subject(found[n][2])), <<"-">>)
                          \o <<"-">> \o found[n][1],
                       Title(found[n][1]) \o <<" ", "-", " ">>
                          \o Title(subject(found[n][2])),
                       "exam", "preparing_for")]
        topic(found) ==
            [n \in DOMAIN found |->
                entity(<<"t", "o", "p", "i", "c", ":">> \o ReplaceSpaces(found[n], <<"-">>),
                       Title(found[n]), "topic", "studying")]
        long(g) == Len(g[1]) > 2
        company(found) ==
            [n \in DOMAIN found |->
                entity(<<"c", "o", "m", "p", "a", "n", "y", ":">>
                          \o ReplaceSpaces(Lower(found[n][1]), <<"-">>),
                       found[n][1], "company",
                       IF Contains(<<"a", "p", "p", "l", "i", "e", "d">>, text_lower)
                       THEN "applied_to" ELSE "interested_in")]
        kid(found) ==
            [n \in DOMAIN found |->
                entity(<<"k", "i", "d", ":">> \o Lower(found[n][1]), found[n][1],
                       "kid", "parent_of")]
    IN  (IF \/ role = "student"
            \/ Contains(<<"c", "o", "u", "r", "s", "e">>, text_lower)
            \/ Contains(<<"e", "x", "a", "m">>, text_lower)
            \/ Contains(<<"t", "e", "s", "t">>, text_lower)
         THEN course(FindAll("course", text, 1))
              \o exam(FindAll("exam", text, 1))
              \o topic(SelectSeq(topic_keywords, has))
         ELSE <<>>)
        \o (IF \/ role = "job"
               \/ Contains(<<"c", "o", "m", "p", "a", "n", "y">>, text_lower)
               \/ Contains(<<"a", "p", "p", "l", "i", "e", "d">>, text_lower)
            THEN company(SelectSeq(FindAll("company", text, 1), long))
            ELSE <<>>)
        \o (IF \/ role = "parent"
               \/ Contains(<<"k", "i", "d">>, text_lower)
               \/ Contains(<<"c", "h", "i", "l", "d">>, text_lower)
            THEN kid(FindAll("kid", text, 1))
            ELSE <<>>)

(***************************************************************************)
(* get_memory_graph                                                        *)
(***************************************************************************)
NodeLabelLen == 80

\* Variant that appends a node whether or not its id is known.
AddNode_Always(g, node) ==
    [g EXCEPT !.nodes = Append(@, node), !.node_ids = @ \cup {node.id}]

\* `if ... not in node_ids:` nodes.append(...); node_ids.add(...)
AddNode(g, node) ==
    IF node.id \in g.node_ids THEN g
    ELSE [g EXCEPT !.nodes = Append(@, node), !.node_ids = @ \cup {node.id}]

\* `if edge_id not in edge_ids:` edges.append(...); edge_ids.add(...), with
\* edge_id = f"{source}-{target}"
AddEdge(g, source, target, relation) ==
    IF source \o <<"-">> \o target \in g.edge_ids THEN g
    ELSE [g EXCEPT !.edges = Append(@, [id |-> source \o <<"-">> \o target,
                                        source |-> source, target |-> target,
                                        relation |-> relation]),
                   !.edge_ids = @ \cup {source \o <<"-">> \o target}]

\* `for entity in entities:` from the n-th entity on
RECURSIVE AddEntities(_, _, _, _, _)
AddEntities(g, memory_node_id, entities, n, mem_mode) ==
    IF n > Len(entities) THEN g
    ELSE AddEntities(
            AddEdge(AddNode(g, [id |-> entities[n].id, label |-> entities[n].label,
                                type |-> entities[n].type, role |-> mem_mode]),
                    memory_node_id, entities[n].id, entities[n].relation),
            memory_node_id, entities, n + 1, mem_mode)

\* `for mem in memories:` from the k-th memory on: the memory node, the edge
\* user -> memory, then the entities of the text.  uuid.uuid4() of the k-th
\* memory is a token no other call returns; g.seen records, for each memory
\* processed, its node id and the ids of the entities extracted from it.
RECURSIVE AddMemories(_, _, _, _, _)
AddMemories(g, user_node_id, memories, k, role) ==
    LET mem == memories[k]
        text == IF Get(mem, "text", <<>>) # <<>> THEN mem.text
                ELSE IF Get(mem, "content", <<>>) # <<>> THEN mem.content
                ELSE Get(mem, "summary", <<>>)
        metadata == Get(mem, "metadata", <<>>)
        mem_mode == Get(metadata, "mode", IF Truthy(role) THEN role ELSE "all")
        mem_role == Get(metadata, "base_role", mem_mode)
        mem_id == Get(mem, "id", <<>>)
        uuid4 == <<(<<"0", "1", "2", "3", "4", "5", "6", "7", "8", "9">>)[k + 1],
                   "-", "4", "a">>
        memory_node_id == IF mem_id # <<>> THEN <<"m", "e", "m", "o", "r", "y", ":">> \o mem_id
                          ELSE <<"m", "e", "m", "o", "r", "y", ":", "l", "o", "c", "a", "l", ":">> \o uuid4
        node == [id |-> memory_node_id,
                 label |-> IF Len(text) > NodeLabelLen
                           THEN Take(text, NodeLabelLen) \o <<"...">>
                           ELSE IF text # <<>> THEN text ELSE <<"M", "e", "m", "o", "r", "y">>,
                 type |-> "memory", role |-> mem_mode, sourceId |-> mem_id,
                 metadata |-> metadata]
        with(entities) ==
            AddEntities(
                AddEdge(AddNode([g EXCEPT !.seen =
                                    Append(@, [node |-> memory_node_id,
                                               entities |-> {entities[n].id :
                                                                n \in DOMAIN entities}])],
                                node),
                        user_node_id, memory_node_id, "remembered"),
                memory_node_id, entities, 1, mem_mode)
    IN  IF k > Len(memories) THEN g
        ELSE AddMemories(with(extract_entities(text, mem_role)),
                         user_node_id, memories, k + 1, role)

GraphLimitAll == 200
GraphLimitRole == 100

\* GET /api/memory-graph for an authenticated user: the memories read and
\* the graph built from them, starting with the user node.
get_memory_graph(user, role, answer1, o1, answer2, o2, at) ==
    LET memories == get_recent_memories(answer1, o1, answer2, o2, role,
                        IF role = None THEN GraphLimitAll ELSE GraphLimitRole,
                        at).value
        user_node_id == <<"u", "s", "e", "r", ":">> \o user.id
        start == [nodes |-> <<[id |-> user_node_id,
                               label |-> IF user.name # <<>> THEN user.name
                                         ELSE <<"U", "s", "e", "r">>,
                               type |-> "user", role |-> "all"]>>,
                  edges |-> <<>>, node_ids |-> {user_node_id}, edge_ids |-> {},
                  seen |-> <<>>]
        graph(g) == [nodes |-> g.nodes, edges |-> g.edges, seen |-> g.seen]
    IN  graph(AddMemories(start, user_node_id, memories, 1, role))

(***************************************************************************)
(* The graph endpoint over stores of a few memories.                       *)
(***************************************************************************)
MaxGraphMems == 3

InitGraph ==
    LET \* Stores of memories out of: two naming course CS101 (one of them twice, as
        \* 'CS 101' and 'CS101'), two without id, two sharing the id m1, a job
        \* memory and one whose metadata has no base_role.
        GraphStores ==
            LET pool ==
                  {[id |-> <<"m", "1">>, text |-> <<"M", "i", "d", "t", "e", "r", "m", " ", "f", "o", "r", " ", "C", "S", "1", "0", "1">>,
                    metadata |-> [mode |-> "student", base_role |-> "student"]],
                   [id |-> <<"m", "2">>, text |-> <<"s", "t", "u", "d", "y", " ", "C", "S", " ", "1", "0", "1", " ", "a", "n", "d", " ", "C", "S", "1", "0", "1">>,
                    metadata |-> [mode |-> "student", base_role |-> "student"]],
                   [id |-> <<>>, text |-> <<"e", "x", "a", "m", " ", "i", "n", " ", "m", "a", "c", "h", "i", "n", "e", " ", "l", "e", "a", "r", "n", "i", "n", "g">>,
                    metadata |-> [mode |-> "student", base_role |-> "student"]],
                   [id |-> <<"m", "1">>, content |-> <<"a", "p", "p", "l", "i", "e", "d", " ", "t", "o", " ", "A", "c", "m", "e", " ", "C", "o", "r", "p">>,
                    metadata |-> [mode |-> "job", base_role |-> "job"]],
                   [id |-> <<>>, text |-> <<"C", "S", "1", "0", "1", " ", "r", "e", "v", "i", "e", "w">>,
                    metadata |-> [mode |-> "student", base_role |-> "student"]],
                   [id |-> <<"m", "-", "6">>, text |-> <<"m", "y", " ", "k", "i", "d", " ", "M", "a", "x", " ", "a", "t", " ", "A", "c", "m", "e", " ", "C", "o", "r", "p">>,
                    metadata |-> [mode |-> "hobby"]]}
            IN  {<<>>} \cup
                UNION {{q \in [1..n -> pool] : \A i, j \in 1..n : i # j => q[i] # q[j]} :
                          n \in 1..MaxGraphMems}
    IN  /\ store \in GraphStores
        /\ modes = {}
        /\ now = 0
        /\ call = NoCall

GetMemoryGraph ==
    /\ call = NoCall
    /\ \E user \in {[id |-> <<"u", "1">>, name |-> <<"A", "n", "n">>],
                    [id |-> <<"u", "2">>, name |-> <<>>]},
          role \in {None, "student", "job"},
          o1 \in {"ok", "h500", "net"}, o2 \in {"ok", "net"} :
         /\ (o1 # "h500" => o2 = "ok")
         /\ call' = [op |-> "get_memory_graph", user |-> user, role |-> role,
                     o1 |-> o1, o2 |-> o2,
                     value |-> get_memory_graph(user, role, store, o1, store, o2, now)]
    /\ UNCHANGED <<store, modes, now>>

SpecGraph == InitGraph /\ [][GetMemoryGraph]_vars

\* C19: in the graph returned, node ids are pairwise distinct, edge ids are
\* pairwise distinct, every edge runs between two node ids, and an entity
\* mentioned by memories is one node with exactly one edge from the node of
\* each memory that mentions it.
C19_GraphWellFormed ==
    call.op = "get_memory_graph" =>
        LET nodes == call.value.nodes
            edges == call.value.edges
            seen == call.value.seen
            ids == {nodes[i].id : i \in DOMAIN nodes}
        IN  /\ \A i, j \in DOMAIN nodes : i # j => nodes[i].id # nodes[j].id
            /\ \A i, j \in DOMAIN edges : i # j => edges[i].id # edges[j].id
            /\ \A i \in DOMAIN edges : edges[i].source \in ids /\ edges[i].target \in ids
            /\ \A k \in DOMAIN seen : \A e \in seen[k].entities :
                  /\ Cardinality({i \in DOMAIN nodes : nodes[i].id = e}) = 1
                  /\ Cardinality({i \in DOMAIN edges :
                                     /\ edges[i].source = seen[k].node
                                     /\ edges[i].target = e}) = 1

\* Course CS101 is named by three memories with distinct nodes: it is one
\* node with three incoming edges.
C19_Witness ==
    /\ call.op = "get_memory_graph"
    /\ Cardinality({call.value.seen[k].node :
                       k \in {j \in DOMAIN call.value.seen :
                                 <<"c", "o", "u", "r", "s", "e", ":", "C", "S", "1", "0", "1">> \in call.value.seen[j].entities}}) = 3
    /\ Cardinality({i \in DOMAIN call.value.nodes :
                       call.value.nodes[i].id = <<"c", "o", "u", "r", "s", "e", ":", "C", "S", "1", "0", "1">>}) = 1
    /\ Cardinality({i \in DOMAIN call.value.edges :
                       call.value.edges[i].target = <<"c", "o", "u", "r", "s", "e", ":", "C", "S", "1", "0", "1">>}) = 3

\* C20: in search_memories and get_recent_memories a failed primary request
\* (network error or non-2xx) is followed by exactly one request to the
\* alternate endpoint before the read returns, and a successful primary by
\* no further request.
C20_ReadFallbackProtocol ==
    call.op \in {"search", "recent"} =>
        /\ (call.outcomes[1] = "net" \/ IsHTTPError(call.outcomes[1]))
              => Len(call.requests) = 2
        /\ call.outcomes[1] = "ok" => Len(call.requests) = 1

\* C21: one call of create_memory sends at most two requests to the store,
\* the primary and a single fallback attempt, under every failure pattern,
\* a 400 answer to the primary included.
C21_WriteFallbackProtocol ==
    call.op = "create" => Len(call.requests) <= 2

\* C22: in a turn where a duplicate is found and its update succeeds,
\* write_back_memories creates no memory, neither summary nor fact, and
\* returns exactly the duplicate's id.
C22_NoCreateAfterUpdate ==
    (call.op = "write_back" /\ call.found # <<>> /\ call.put_outcome = "ok") =>
        /\ ~call.raised
        /\ call.creates = <<>>
        /\ Len(call.after) = Len(call.before)
        /\ call.value = <<call.found[1].id>>

(***************************************************************************)
(* Two chat turns of one user, mode and message served at once: SpecRace.  *)
(***************************************************************************)
\* Two requests of the threaded server are inside write_back_memories for the
\* same user, mode and message.  Each runs check_duplicate_memory against the
\* store as it is at that moment and, in a later step, the update or the
\* creations; the other request may run between the two.
InitRace ==
    LET \* 'plan my trip' and 'Exa'
        RaceMessages == { <<"p", "l", "a", "n", " ", "m", "y", " ", "t", "r", "i", "p">>,
                          <<"E", "x", "a">> }
        \* 'ok' and 'Your exam is soon'
        RaceResponses == { <<"o", "k">>,
                           <<"Y", "o", "u", "r", " ", "e", "x", "a", "m", " ", "i", "s", " ", "s", "o", "o", "n">> }
        \* Nothing stored, a summary of another mode, or a summary of an earlier
        \* turn on 'plan my trip now'.
        RaceStores ==
            { <<>>,
              <<NewDocument(1, "text", SummaryText(StoredPlan), [mode |-> "job"],
                            Range(ContainerTags("u1", "job")))>>,
              <<NewDocument(1, "text",
                            SummaryText(<<"p", "l", "a", "n", " ", "m", "y", " ", "t", "r", "i", "p", " ", "n", "o", "w">>),
                            [mode |-> "student"],
                            Range(ContainerTags("u1", "student")))>> }
    IN  /\ store \in RaceStores
        /\ modes = {}
        /\ now = 0
        /\ call \in { [op |-> "race", user_id |-> "u1", role |-> "student",
                       user_message |-> m, before |-> store,
                       procs |-> [p \in 1..2 |->
                                     [pc |-> "start", llm_response |-> r[p],
                                      writes_seen |-> 0, chk |-> <<>>,
                                      result |-> <<>>]]] :
                      m \in RaceMessages, r \in [1..2 -> RaceResponses] }

\* `duplicate = check_duplicate_memory(user_id, role, user_message)` of one of
\* the two requests.
RaceCheck ==
    \E p \in 1..2 :
        /\ call.op = "race"
        /\ call.procs[p].pc = "start"
        /\ call' = [call EXCEPT
                      !.procs[p].pc = "checked",
                      !.procs[p].writes_seen =
                          Cardinality({q \in 1..2 : call.procs[q].pc = "done"}),
                      !.procs[p].chk =
                          <<check_duplicate_memory(store, call.user_id, call.role,
                                                   call.user_message, "ok", now)>>]
        /\ UNCHANGED <<store, modes, now>>

\* The rest of write_back_memories of one request, on the store as it is now:
\* the update of the duplicate found earlier, or the summary creation, then
\* the fact block.  The summary's classification reads the clock only.
RaceWrite ==
    \E p \in 1..2, put_outcome \in {"ok", "h500"} :
        LET mode_info == resolve_mode(modes, call.user_id, call.role, <<>>)
            classified(c) ==
                WriteBackBlocks(store, call.user_id, mode_info.modeKey,
                    mode_info.baseRole, SummaryText(call.user_message),
                    SummaryMetadata(call.user_id, mode_info.modeKey,
                                    mode_info.baseRole, c.value, now),
                    call.procs[p].llm_response, call.procs[p].chk[1],
                    put_outcome, now)
            after(r) ==
                /\ call' = [call EXCEPT !.procs[p].pc = "done",
                                        !.procs[p].result = <<r>>]
                /\ store' = r.docs
        IN  /\ call.op = "race"
            /\ call.procs[p].pc = "checked"
            /\ after(classified(classify_memory(mode_info.baseRole,
                                                SummaryText(call.user_message),
                                                EmptyDict, CalendarOf(now))))
            /\ UNCHANGED <<modes, now>>

SpecRace == InitRace /\ [][RaceCheck \/ RaceWrite]_vars

\* C23: when two write-backs for the same user, mode and message both run
\* check_duplicate_memory before either create reaches the store, both find
\* no duplicate and both create a summary, so that the store ends with two
\* more summaries of the message than it had.
C23_DuplicateWriteRace ==
    (/\ call.op = "race"
     /\ \A p \in 1..2 : call.procs[p].pc = "done" /\ call.procs[p].writes_seen = 0
     /\ \A p \in 1..2 : call.procs[p].chk[1].value = <<>>) =>
        /\ \A p \in 1..2 : /\ ~call.procs[p].result[1].raised
                           /\ Len(call.procs[p].result[1].value) >= 1
        /\ Cardinality({i \in DOMAIN store :
                           /\ i \notin DOMAIN call.before
                           /\ MemText(store[i]) = Lower(SummaryText(call.user_message))}) = 2

\* C24: whenever classify_memory returns type 'event' with a non-null
\* expires_at, that expires_at is not on an earlier day than event_date, for
\* every role and every event date.
C24_ExpiryAnchoredToEvent ==
    (/\ call.op = "classify_memory"
     /\ call.result.raised = ""
     /\ Get(call.result.value, "type", None) = "event"
     /\ call.result.value.expires_at.kind # "none")
    => call.result.value.expires_at.t >= call.result.value.event_date.t

\* C25: when classify_memory is called with a context carrying an exam date
\* and the text holds a different date that parses, expires_at is computed
\* from the context's date and event_date is not the date of the text.
C25_HintPrecedence ==
    (/\ call.op = "classify_memory"
     /\ IsoParses(Get(call.context, "exam_date", IsoNone))
     /\ call.parsed.raised = ""
     /\ call.parsed.value # <<>>
     /\ call.parsed.value[1].t # call.context.exam_date.t)
    => /\ call.result.raised = ""
       /\ call.result.value.expires_at.kind # "none"
       /\ call.result.value.expires_at.t = call.context.exam_date.t + ExamHintDays
       /\ "event_date" \in DOMAIN call.result.value
             => call.result.value.event_date.t # call.parsed.value[1].t

(***************************************************************************)
(* Mode keys: legacy keys, template keys and the start-up clean-up:        *)
(* SpecKeys.                                                               *)
(***************************************************************************)
MaxKeyRows == 4

\* The start-up loop over UserMode.query.all(), `order` being the order of
\* that listing: a key matching ^(.*)-[0-9a-fA-F]{4}$ is replaced by its base
\* when the user has no row with the base key.  The query of each round sees
\* the renames of the rounds before it.
normalize_mode_keys_NoClashCheck(rows, order) ==
    LET LegacyBase(key) ==
            CASE key = "student-722f" -> <<"student">>
              [] key = "student-0A1b" -> <<"student">>
              [] key = "my-plan-00ff" -> <<"my-plan">>
              [] OTHER -> <<>>
        Renamed(table, m) ==
            IF LegacyBase(m.key) # <<>>
            THEN (table \ {m}) \cup {[m EXCEPT !.key = LegacyBase(m.key)[1]]}
            ELSE table
        RECURSIVE Loop(_, _)
        Loop(table, i) ==
            IF i > Len(order) THEN table
            ELSE Loop(Renamed(table, order[i]), i + 1)
    IN  Loop(rows, 1)

normalize_mode_keys(rows, order) ==
    LET \* re.match(r"^(.*)-[0-9a-fA-F]{4}$", key): <<base>>, or <<>> for no match.
        LegacyBase(key) ==
            CASE key = "student-722f" -> <<"student">>
              [] key = "student-0A1b" -> <<"student">>
              [] key = "my-plan-00ff" -> <<"my-plan">>
              [] OTHER -> <<>>
        Renamed(table, m) ==
            IF /\ LegacyBase(m.key) # <<>>
               /\ RowsFor(table, m.user_id, LegacyBase(m.key)[1]) = {}
            THEN (table \ {m}) \cup {[m EXCEPT !.key = LegacyBase(m.key)[1]]}
            ELSE table
        RECURSIVE Loop(_, _)
        Loop(table, i) ==
            IF i > Len(order) THEN table
            ELSE Loop(Renamed(table, order[i]), i + 1)
    IN  Loop(rows, 1)

\* Tables left by earlier versions, which appended four random hex digits to
\* a key: no user holds a key twice.
InitKeys ==
    LET Row(user_id, key, name) ==
            [user_id |-> user_id, key |-> key, name |-> name, base_role |-> "job",
             default_tags |-> <<"old">>, cross_mode_sources |-> <<"job">>]
        LegacyTables ==
            { {},
              { Row("u1", "student-722f", "Study") },
              { Row("u1", "student-722f", "Study"), Row("u1", "student-0A1b", "Study 2") },
              { Row("u1", "student-722f", "Study"), Row("u2", "student-722f", "Theirs") },
              { Row("u1", "student-722f", "Study"), Row("u1", "student", "Mine") },
              { Row("u1", "my-plan-00ff", "Plan"), Row("u1", "plan-12345", "Plan 2"),
                Row("u2", "student-zzzz", "Z") } }
    IN  /\ store = <<>>
        /\ modes \in LegacyTables
        /\ now = 0
        /\ call = NoCall

\* The clean-up of a start of the server.
NormalizeModeKeys ==
    /\ \E order \in Orders(modes) :
         /\ modes' = normalize_mode_keys(modes, order)
         /\ call' = [op |-> "normalize", before |-> modes]
    /\ UNCHANGED <<store, now>>

\* POST /api/modes with the key of a template or a key of the legacy form;
\* list(set) lists the other keys in one of two orders.
CreateKeyedMode ==
    /\ \E user_id \in ModeUsers, key \in {"student", "student-722f"} :
         LET fresh == RowsFor(modes, user_id, key) = {}
             InOther(k) == k \in OtherKeys(modes, user_id, key)
             listed == SelectSeq(<<"student", "job", "fitness", "student-722f",
                                   "student-0A1b", "my-plan", "my-plan-00ff",
                                   "plan-12345", "student-zzzz">>, InOther)
         IN  /\ fresh => Cardinality(modes) < MaxKeyRows
             /\ \E order \in IF fresh THEN {listed, Reverse(listed)} ELSE {<<>>} :
                  LET r == create_mode(modes, user_id, "My Student", key, "parent",
                                       <<"mine">>, order)
                  IN  /\ modes' = r.rows
                      /\ call' = [op |-> "create_mode", user_id |-> user_id,
                                  key |-> r.key, status |-> r.status,
                                  before |-> modes]
    /\ UNCHANGED <<store, now>>

\* DELETE /api/modes/<mode_key>
DeleteKeyedMode ==
    /\ \E user_id \in ModeUsers, mode_key \in {"student", "student-722f"} :
         /\ modes' = delete_mode(modes, user_id, mode_key).rows
         /\ call' = [op |-> "delete_mode", user_id |-> user_id, mode_key |-> mode_key,
                     status |-> delete_mode(modes, user_id, mode_key).status]
    /\ UNCHANGED <<store, now>>

\* resolve_mode for a request of one of the users; every row stores its cross
\* sources, so list(set) is not consulted.
ResolveKeyed ==
    /\ \E user_id \in ModeUsers, mode_key \in {"student", "student-722f", "job"} :
         call' = [op |-> "resolve_mode", user_id |-> user_id, mode_key |-> mode_key,
                  value |-> resolve_mode(modes, user_id, mode_key, <<>>)]
    /\ UNCHANGED <<store, modes, now>>

SpecKeys ==
    InitKeys /\ [][NormalizeModeKeys \/ CreateKeyedMode \/ DeleteKeyedMode \/ ResolveKeyed]_vars

\* C26: for a template key, resolve_mode returns the user's custom
\* configuration (isCustom true, the stored baseRole, defaultTags and
\* crossModeSources) when the user holds a custom mode with that key, and the
\* template configuration (isCustom false) when the user holds none.
C26_TemplateKeyCollision ==
    (call.op = "resolve_mode" /\ call.mode_key \in TemplateKeys) =>
        LET own == RowsFor(modes, call.user_id, call.mode_key)
        IN  /\ own # {} =>
                \E r \in own :
                    /\ call.value.isCustom
                    /\ call.value.baseRole = r.base_role
                    /\ call.value.defaultTags = r.default_tags
                    /\ call.value.crossModeSources = r.cross_mode_sources
            /\ own = {} =>
                /\ ~call.value.isCustom
                /\ \E i \in DOMAIN MODE_TEMPLATES :
                      /\ MODE_TEMPLATES[i].key = call.mode_key
                      /\ call.value.baseRole = MODE_TEMPLATES[i].baseRole
                      /\ call.value.defaultTags = MODE_TEMPLATES[i].defaultTags

\* C28: after any sequence of create_mode, delete_mode and start-up clean-ups
\* no user holds two custom modes with the same key; create_mode for a key the
\* user already holds adds no row and answers with the existing mode; and the
\* clean-up renames a row only when the user had no row with the base key.
C28_ModeKeyUniqueness ==
    /\ \A r1, r2 \in modes :
          (r1.user_id = r2.user_id /\ r1.key = r2.key) => r1 = r2
    /\ (call.op = "create_mode" /\ RowsFor(call.before, call.user_id, call.key) # {})
          => /\ modes = call.before
             /\ call.status = 200
    /\ call.op = "normalize" =>
          \A m \in call.before \ modes :
              \E n \in modes \ call.before :
                  /\ n = [m EXCEPT !.key = n.key]
                  /\ RowsFor(call.before, m.user_id, n.key) = {}

\* A clean-up met two legacy keys of user u1 with the base 'student': one row
\* was renamed, the other kept its key.
C28_Witness ==
    /\ call.op = "normalize"
    /\ modes # call.before
    /\ RowsFor(modes, "u1", "student") # {}
    /\ RowsFor(modes, "u1", "student-722f") \cup RowsFor(modes, "u1", "student-0A1b") # {}
    /\ RowsFor(call.before, "u1", "student") = {}

(***************************************************************************)
(* The container tags of the store client's requests: SpecTags.            *)
(***************************************************************************)
\* The callers' user ids: a signed-in user, and 'default' for a request
\* without one.
TagUsers == {"u1", "default"}

\* search_memories; every request of a call carries its container_tags.
SearchTagged ==
    /\ \E user_id \in TagUsers, role \in ReadRoles, outcome \in ReadOutcomes :
         LET tags == ContainerTags(user_id, role)
             answer == IF outcome = "ok"
                       THEN StoreAnswer(store, tags, "any", FALSE, DefaultSearchLimit, TRUE)
                       ELSE <<>>
             r == search_memories(answer, outcome, role, now)
         IN  call' = [op |-> "search", user_id |-> user_id, role |-> role,
                      tags |-> tags, requests |-> r.requests, value |-> r.value]
    /\ UNCHANGED <<store, modes, now>>

\* get_recent_memories
RecentTagged ==
    /\ \E user_id \in TagUsers, role \in ReadRoles, o1, o2 \in {"ok", "h500"} :
         LET tags == ContainerTags(user_id, role)
             answer == StoreAnswer(store, tags, "any", TRUE, DefaultRecentLimit, TRUE)
             a1 == IF o1 = "ok" THEN answer ELSE <<>>
             a2 == IF IsHTTPError(o1) /\ o2 = "ok" THEN answer ELSE <<>>
             r == get_recent_memories(a1, o1, a2, o2, role, DefaultRecentLimit, now)
         IN  call' = [op |-> "recent", user_id |-> user_id, role |-> role,
                      tags |-> tags, requests |-> r.requests, value |-> r.value]
    /\ UNCHANGED <<store, modes, now>>

\* create_memory
CreateTagged ==
    /\ Len(store) < MaxStore
    /\ \E user_id \in TagUsers, role \in ReadRoles, o1 \in {"ok", "h500"} :
         LET r == create_memory(store, user_id, <<"x">>, [source |-> "chat"], role,
                                o1, "ok", "ok")
         IN  /\ store' = r.docs
             /\ call' = [op |-> "create", user_id |-> user_id, role |-> role,
                         tags |-> ContainerTags(user_id, role),
                         requests |-> r.requests, value |-> r.value]
    /\ UNCHANGED <<modes, now>>

SpecTags == Init /\ [][SearchTagged \/ RecentTagged \/ CreateTagged]_vars

\* C27: every search, recent-list and create request sent to the store
\* carries a container-tag set that is not empty, holds the caller's userId
\* tag and, when a mode is given, the tag userId-mode, for every userId, the
\* anonymous 'default' included.
C27_TagScoping ==
    (call.op \in {"search", "recent", "create"} /\ call.requests # <<>>) =>
        /\ call.tags # <<>>
        /\ <<call.user_id>> \in Range(call.tags)
        /\ Truthy(call.role) => <<call.user_id, call.role>> \in Range(call.tags)

\* C29: write_back_memories completes and returns its list of memory ids
\* without raising, whether or not a duplicate is found, its update succeeds,
\* and the reply holds a fact keyword.
C29_WriteBackAlwaysReturns ==
    call.op = "write_back" =>
        /\ ~call.raised
        /\ call.error = None

====
